---- MODULE Spec2Model ----
(***************************************************************************)
(* Model of the Dairy Farm Management application (src/main.py): the       *)
(* tables it loads from the sheets, the aggregations of its pages and the  *)
(* pending-entries scan of the Dashboard.                                  *)
(*                                                                         *)
(* Text is modelled as a sequence of characters, so that strip(), lower()  *)
(* and substring tests are computed.  A calendar date is a day number of a *)
(* small calendar of DaysInMonth-day months and MonthsInYear-month years.  *)
(***************************************************************************)
EXTENDS Integers, Sequences, FiniteSets, TLC

\* ------------------------------------------------------------------------
\* Bounds of the model
\* ------------------------------------------------------------------------
DaysInMonth == 2
MonthsInYear == 2
WeekDays == 1
MaxToday == 4
MaxCowRows == 2
MaxMilkRows == 1
MaxLedgerRows == 2
MaxTicks == 2
MaxGroupRows == 3
MaxCallRows == 2
MaxCustomers == 2

\* ------------------------------------------------------------------------
\* Text
\* ------------------------------------------------------------------------
UpperAlpha == <<"A","B","C","D","E","F","G","H","I","J","K","L","M",
                "N","O","P","Q","R","S","T","U","V","W","X","Y","Z">>
LowerAlpha == <<"a","b","c","d","e","f","g","h","i","j","k","l","m",
                "n","o","p","q","r","s","t","u","v","w","x","y","z">>

\* str.lower() of one character
LowerChar(c) ==
    IF \E i \in 1..26 : UpperAlpha[i] = c
    THEN LowerAlpha[CHOOSE i \in 1..26 : UpperAlpha[i] = c]
    ELSE c

\* str.lower()
Lower(s) == [i \in 1..Len(s) |-> LowerChar(s[i])]

\* str.strip()
RECURSIVE LStrip(_)
LStrip(s) == IF s # <<>> /\ Head(s) = " " THEN LStrip(Tail(s)) ELSE s
RECURSIVE RStrip(_)
RStrip(s) ==
    IF s # <<>> /\ s[Len(s)] = " " THEN RStrip(SubSeq(s, 1, Len(s) - 1)) ELSE s
Strip(s) == RStrip(LStrip(s))

\* the Python test `sub in s`
Contains(s, sub) ==
    \E i \in 0..(Len(s) - Len(sub)) : SubSeq(s, i + 1, i + Len(sub)) = sub

\* " ".join(vals)
RECURSIVE Join(_)
Join(vals) ==
    IF vals = <<>> THEN <<>>
    ELSE IF Len(vals) = 1 THEN vals[1]
    ELSE vals[1] \o <<" ">> \o Join(Tail(vals))

Digits == <<"0","1","2","3","4","5","6","7","8","9">>
IsDigit(c) == \E i \in 1..10 : Digits[i] = c
DigitVal(c) == (CHOOSE i \in 1..10 : Digits[i] = c) - 1

\* text that pd.to_numeric / read_csv reads as a number
IsNumText(s) == s # <<>> /\ \A i \in 1..Len(s) : IsDigit(s[i])
RECURSIVE ParseNum(_)
ParseNum(s) ==
    IF s = <<>> THEN 0
    ELSE 10 * ParseNum(SubSeq(s, 1, Len(s) - 1)) + DigitVal(s[Len(s)])

\* ------------------------------------------------------------------------
\* Column names and literals of the program
\* ------------------------------------------------------------------------
TIMESTAMP == <<"T","i","m","e","s","t","a","m","p">>
DATE == <<"D","a","t","e">>
COWID == <<"C","o","w","I","D">>
\* "Shift - पहर" and "Milking -दूध": each Devanagari word is one symbol
PAHAR == "<pahar>"
DOODH == "<doodh>"
SHIFT_PAHAR == <<"S","h","i","f","t"," ","-"," ",PAHAR>>
MILKING_DOODH == <<"M","i","l","k","i","n","g"," ","-",DOODH>>
SHIFT == <<"S","h","i","f","t">>
AMOUNT == <<"A","m","o","u","n","t">>
PAID_TO == <<"P","a","i","d"," ","T","o">>
RECEIVED_BY == <<"R","e","c","e","i","v","e","d"," ","B","y">>
EXPENSE_BY == <<"E","x","p","e","n","s","e"," ","B","y">>
CUSTOMER_A == <<"C","u","s","t","o","m","e","r","A">>
CUSTOMER_B == <<"C","u","s","t","o","m","e","r","B">>
BIPIN_KUMAR == <<"B","i","p","i","n"," ","K","u","m","a","r">>
MORNING == <<"M","o","r","n","i","n","g">>
EVENING == <<"E","v","e","n","i","n","g">>

\* ------------------------------------------------------------------------
\* Cells and tables
\* ------------------------------------------------------------------------
\* A cell is [t, n, s]: "str" text s; "nan" missing; "num" number n;
\* "dtxt" text that reads as the date of day n; "ts" the Timestamp of day n;
\* "nat" NaT; "dmy" the text strftime("%d-%m-%Y") gives for day n.
Str(s) == [t |-> "str", n |-> 0, s |-> s]
NaN == [t |-> "nan", n |-> 0, s |-> <<>>]
Num(n) == [t |-> "num", n |-> n, s |-> <<>>]
DTxt(d) == [t |-> "dtxt", n |-> d, s |-> <<>>]
Ts(d) == [t |-> "ts", n |-> d, s |-> <<>>]
NaT == [t |-> "nat", n |-> 0, s |-> <<>>]
Dmy(d) == [t |-> "dmy", n |-> d, s |-> <<>>]

\* pd.DataFrame(): no columns, no rows
EmptyDF == [cols |-> <<>>, rows |-> <<>>]

\* df.empty
IsEmpty(df) == Len(df.cols) = 0 \/ Len(df.rows) = 0

\* `name in df.columns`
HasCol(df, name) == \E i \in 1..Len(df.cols) : df.cols[i] = name

\* position of a column (the first one of that name)
ColIdx(df, name) == CHOOSE i \in 1..Len(df.cols) :
    df.cols[i] = name /\ \A j \in 1..(i - 1) : df.cols[j] # name

\* df[name] as the sequence of its cells
Column(df, name) == [r \in 1..Len(df.rows) |-> df.rows[r][ColIdx(df, name)]]

\* sequence filter
RECURSIVE SelectIdx(_, _)
SelectIdx(n, keep) ==
    IF n = 0 THEN <<>>
    ELSE IF n \in keep THEN Append(SelectIdx(n - 1, keep), n)
    ELSE SelectIdx(n - 1, keep)

\* df[mask]: the rows whose index is in keep, in order
FilterRows(df, keep) ==
    LET idx == SelectIdx(Len(df.rows), keep)
    IN [cols |-> df.cols, rows |-> [k \in 1..Len(idx) |-> df.rows[idx[k]]]]

\* df.drop(columns=[c for c in drop_cols if c in df.columns])
DropCols(df, drop) ==
    LET idx == SelectIdx(Len(df.cols), {i \in 1..Len(df.cols) : df.cols[i] \notin drop})
    IN [cols |-> [k \in 1..Len(idx) |-> df.cols[idx[k]]],
        rows |-> [r \in 1..Len(df.rows) |->
                    [k \in 1..Len(idx) |-> df.rows[r][idx[k]]]]]

\* df[name] = f(df[name]) cell by cell
MapCol(df, name, F(_)) ==
    [cols |-> df.cols,
     rows |-> [r \in 1..Len(df.rows) |->
                [k \in 1..Len(df.cols) |->
                    IF k = ColIdx(df, name) THEN F(df.rows[r][k])
                    ELSE df.rows[r][k]]]]

\* the members of a sequence
Range(f) == {f[i] : i \in 1..Len(f)}

RECURSIVE SumSeq(_)
SumSeq(s) == IF s = <<>> THEN 0 ELSE Head(s) + SumSeq(Tail(s))

\* pd.read_csv: a column whose cells are all numbers or empty gets a numeric
\* dtype; any other column keeps its cells as text
NumericColumnText(sheet, k) ==
    \A r \in 1..Len(sheet.rows) :
        \/ sheet.rows[r][k].t = "nan"
        \/ sheet.rows[r][k].t = "str" /\ IsNumText(sheet.rows[r][k].s)

read_csv(sheet) ==
    [cols |-> sheet.cols,
     rows |-> [r \in 1..Len(sheet.rows) |->
                [k \in 1..Len(sheet.cols) |->
                    IF NumericColumnText(sheet, k) /\ sheet.rows[r][k].t = "str"
                    THEN Num(ParseNum(sheet.rows[r][k].s))
                    ELSE sheet.rows[r][k]]]]

\* load_csv(url, drop_cols): an empty frame when the fetch raises
load_csv(sheet, fetchFails, drop_cols) ==
    IF fetchFails THEN EmptyDF ELSE DropCols(read_csv(sheet), drop_cols)

\* pd.to_numeric(cell, errors="coerce") followed by a NaN-skipping sum:
\* the value the cell adds to a sum
to_numeric(c) ==
    CASE c.t = "num" -> c.n
      [] c.t = "str" /\ IsNumText(c.s) -> ParseNum(c.s)
      [] c.t = "ts" -> c.n
      [] OTHER -> 0

CoercedColumnSum(df, k) ==
    SumSeq([r \in 1..Len(df.rows) |-> to_numeric(df.rows[r][k])])

\* a variant of sum_numeric_columns that sums the excluded columns too
SumEveryColumn(df, exclude_cols) ==
    IF IsEmpty(df) THEN 0
    ELSE SumSeq([k \in 1..Len(df.cols) |-> CoercedColumnSum(df, k)])

\* sum_numeric_columns(df, exclude_cols)
sum_numeric_columns(df, exclude_cols) ==
    IF IsEmpty(df) THEN 0
    ELSE LET numeric_cols ==
                 SelectIdx(Len(df.cols),
                           {k \in 1..Len(df.cols) : df.cols[k] \notin exclude_cols})
         IN SumSeq([j \in 1..Len(numeric_cols) |->
                        CoercedColumnSum(df, numeric_cols[j])])

\* ------------------------------------------------------------------------
\* Dates
\* ------------------------------------------------------------------------
\* pd.Timestamp("2025-11-01"): the first day of the second month of year 0
START_DATE == 2
VALIDATION_START == 2

DaysInYear == DaysInMonth * MonthsInYear
\* Timestamp.month and Timestamp.year of a day
MonthOf(d) == (d \div DaysInMonth) % MonthsInYear
YearOf(d) == d \div DaysInYear

\* An instant is counted in half days: a date cell is midnight of its day,
\* pd.Timestamp.today() is [day, tod] with tod = 0 at midnight sharp, else 1.
Instant(day, tod) == 2 * day + tod
Midnight(d) == Instant(d, 0)

\* pd.to_datetime(cell, errors="coerce"); the Date cells of the sheets are
\* date text, other text or empty
to_datetime(c) ==
    CASE c.t = "dtxt" -> Ts(c.n)
      [] c.t = "ts" -> c
      [] OTHER -> NaT

\* pd.to_datetime(cell, format="%d-%m-%Y", errors="coerce")
to_datetime_dmy(c) ==
    CASE c.t = "dmy" -> Ts(c.n)
      [] c.t = "ts" -> c
      [] OTHER -> NaT

\* Timestamp.strftime("%d-%m-%Y"); NaT gives a missing value
strftime_dmy(c) == IF c.t = "ts" THEN Dmy(c.n) ELSE NaN

\* rows of df whose Date is a Timestamp satisfying P
DateRows(df, P(_)) ==
    {r \in 1..Len(df.rows) :
        /\ df.rows[r][ColIdx(df, DATE)].t = "ts"
        /\ P(df.rows[r][ColIdx(df, DATE)].n)}

\* ------------------------------------------------------------------------
\* Dashboard: date conversion of the loaded frames (the loop at "Filter from
\* 1 Nov 2025"): the Date column is parsed and the rows with NaT are dropped
\* in place; the comparison with START_DATE only rebinds the loop variable.
\* ------------------------------------------------------------------------
\* a variant of DropNaT whose dropna is not in place
KeepNaT(df) == df

DropNaT(df) ==
    FilterRows(df, {r \in 1..Len(df.rows) : df.rows[r][ColIdx(df, DATE)].t # "nat"})

DateFilterLoop(df) ==
    IF HasCol(df, DATE) THEN DropNaT(MapCol(df, DATE, to_datetime)) ELSE df

\* next((c for c in df.columns if "milk" in c.lower() or "दूध" in c), None);
\* None is the empty name, which `if milk_col` rejects alike
None == <<>>
IsMilkName(c) == Contains(Lower(c), <<"m","i","l","k">>) \/ Contains(c, <<DOODH>>)
FirstCol(df, P(_)) ==
    IF \E i \in 1..Len(df.cols) : P(df.cols[i])
    THEN df.cols[CHOOSE i \in 1..Len(df.cols) :
                    P(df.cols[i]) /\ \A j \in 1..(i - 1) : ~P(df.cols[j])]
    ELSE None
LastCol(df, P(_)) ==
    IF \E i \in 1..Len(df.cols) : P(df.cols[i])
    THEN df.cols[CHOOSE i \in 1..Len(df.cols) :
                    P(df.cols[i]) /\ \A j \in (i + 1)..Len(df.cols) : ~P(df.cols[j])]
    ELSE None
milk_col_of(df) == FirstCol(df, IsMilkName)

\* pd.to_numeric(df[col], errors="coerce").sum()
CoercedSum(df, col) == CoercedColumnSum(df, ColIdx(df, col))

\* total_milk_produced / milk_month
MilkProduced(df) ==
    IF milk_col_of(df) # None THEN CoercedSum(df, milk_col_of(df)) ELSE 0

\* total_milk_m + total_milk_e
MilkDistributed(dm, de) ==
    sum_numeric_columns(dm, {TIMESTAMP, DATE}) + sum_numeric_columns(de, {TIMESTAMP, DATE})

\* a clamped variant of Remaining
RemainingClamped(produced, distributed) ==
    IF produced - distributed < 0 THEN 0 ELSE produced - distributed

\* remaining_milk, remaining_milk_month (Dashboard), remaining_milk (Milk
\* Distribution)
Remaining(produced, distributed) == produced - distributed

\* pd.to_numeric(df["Amount"], errors="coerce").sum() if not df.empty else 0
AmountRaises(df) == ~IsEmpty(df) /\ ~HasCol(df, AMOUNT)
AmountTotal(df) == IF IsEmpty(df) THEN 0 ELSE CoercedSum(df, AMOUNT)

\* df.loc[df[by] == "Bipin Kumar", "Amount"].sum() if by in df.columns else 0.
\* Series.sum() does not coerce: over a text (object) column it concatenates
\* the selected texts, and fund_bipin's arithmetic on that text raises.
\* the text of a cell read as text ("" for a cell that holds none)
AsStrText(c) == IF c.t = "str" THEN c.s ELSE <<>>

\* a variant of PartyRows that takes every row whose stripped field contains
\* the name, whatever the case
PartyRowsContaining(df, by) ==
    {r \in 1..Len(df.rows) :
        Contains(Lower(Strip(AsStrText(df.rows[r][ColIdx(df, by)]))), Lower(BIPIN_KUMAR))}

PartyRows(df, by) ==
    {r \in 1..Len(df.rows) : df.rows[r][ColIdx(df, by)] = Str(BIPIN_KUMAR)}
PartyRaises(df, by) ==
    /\ HasCol(df, by)
    /\ \/ ~HasCol(df, AMOUNT)
       \/ \E r \in PartyRows(df, by) : df.rows[r][ColIdx(df, AMOUNT)].t = "str"
PartyTotal(df, by) ==
    IF HasCol(df, by)
    THEN LET sel == FilterRows(df, PartyRows(df, by))
         IN SumSeq([r \in 1..Len(sel.rows) |->
                IF sel.rows[r][ColIdx(df, AMOUNT)].t = "num"
                THEN sel.rows[r][ColIdx(df, AMOUNT)].n ELSE 0])
    ELSE 0

\* a variant of Fund that never goes below 0
FundClamped(investment, received, expense) ==
    IF investment + received - expense < 0 THEN 0 ELSE investment + received - expense

\* fund_bipin
Fund(investment, received, expense) == investment + received - expense

\* filter_month(df): the rows whose month is today's month
filter_month(df, today) ==
    IF IsEmpty(df) \/ ~HasCol(df, DATE) THEN df
    ELSE FilterRows(df, DateRows(df, LAMBDA d : MonthOf(d) = MonthOf(today)))

\* ------------------------------------------------------------------------
\* Dashboard: Pending Entries
\* ------------------------------------------------------------------------
\* astype(str) of a cell
RECURSIVE NumText(_)
NumText(n) ==
    IF n < 10 THEN <<Digits[n + 1]>>
    ELSE NumText(n \div 10) \o <<Digits[(n % 10) + 1]>>
AsStr(c) ==
    CASE c.t = "str" -> c.s
      [] c.t = "num" -> NumText(c.n)
      [] c.t = "nan" -> <<"n","a","n">>
      [] OTHER -> <<"N","a","T">>

\* Series.dropna() keeps the cells that are not missing
NotNull(c) == c.t # "nan" /\ c.t # "nat"

\* "Detect shift & cowid columns": each loop keeps the last matching column
IsShiftName(c) == Contains(Lower(c), <<"s","h","i","f","t">>) \/ Contains(c, <<PAHAR>>)
IsCowName(c) == Contains(Lower(c), <<"c","o","w">>)
IsCowIdName(c) ==
    Lower(Strip(c)) \in {<<"c","o","w","i","d">>, <<"c","o","w"," ","i","d">>,
                         <<"c","o","w","_","i","d">>}
shift_col_of(cow_log) ==
    IF IsEmpty(cow_log) THEN None ELSE LastCol(cow_log, IsShiftName)
cowid_col_of(cow_log) ==
    IF IsEmpty(cow_log) THEN None
    ELSE IF LastCol(cow_log, IsCowName) # None THEN LastCol(cow_log, IsCowName)
    ELSE FirstCol(cow_log, IsCowIdName)

MorningKeywords ==
    {<<"m","o","r","n","i","n","g">>, <<"m","o","r">>, <<"<subah>">>, <<"<bhor>">>,
     <<"a","m">>}
EveningKeywords ==
    {<<"e","v","e","n","i","n","g">>, <<"e","v","e">>, <<"<shaam>">>, <<"p","m">>,
     <<"e","v","e","n">>}

\* a variant of CowKey that keeps the surrounding blanks
CowKeyUnstripped(c) == AsStr(c)

\* the entity a cow cell denotes: astype(str).str.strip()
CowKey(c) == Strip(AsStr(c))

\* rows of df of day `date` whose cow cell denotes cowid_value
CowDateMask(df, date, cowid_col, cowid_value) ==
    {r \in 1..Len(df.rows) :
        /\ df.rows[r][ColIdx(df, DATE)] = Ts(date)
        /\ CowKey(df.rows[r][ColIdx(df, cowid_col)]) = Strip(cowid_value)}

has_shift_on_date_for_cow(df, date, shift_col, cowid_col, cowid_value, shift_name) ==
    IF IsEmpty(df) \/ shift_col = None \/ cowid_col = None THEN FALSE
    ELSE LET mask == CowDateMask(df, date, cowid_col, cowid_value)
             sel == FilterRows(df, {r \in mask :
                        NotNull(df.rows[r][ColIdx(df, shift_col)])})
             vals == [r \in 1..Len(sel.rows) |->
                        Strip(Lower(AsStr(sel.rows[r][ColIdx(df, shift_col)])))]
             joined == Join(vals)
         IN IF mask = {} THEN FALSE
            ELSE IF vals = <<>> THEN FALSE
            ELSE IF Lower(shift_name) = <<"m","o","r","n","i","n","g">>
                 THEN \E k \in MorningKeywords : Contains(joined, k)
                 ELSE \E k \in EveningKeywords : Contains(joined, k)

\* a variant of has_any_on_date that is satisfied by any row at all
HasAnyRow(df, date) ==
    IF IsEmpty(df) \/ ~HasCol(df, DATE) THEN FALSE ELSE Len(df.rows) > 0

has_any_on_date(df, date) ==
    IF IsEmpty(df) \/ ~HasCol(df, DATE) THEN FALSE
    ELSE DateRows(df, LAMBDA d : d = date) # {}

\* Series.unique(): the values in order of first appearance
RECURSIVE Unique(_)
Unique(s) ==
    IF s = <<>> THEN <<>>
    ELSE LET u == Unique(SubSeq(s, 1, Len(s) - 1))
         IN IF \E i \in 1..Len(u) : u[i] = s[Len(s)] THEN u ELSE Append(u, s[Len(s)])

\* a variant of cow_ids_of that keeps a value each time it appears
cow_ids_repeated(cow_log, cowid_col) ==
    LET sel == FilterRows(cow_log, {r \in 1..Len(cow_log.rows) :
                    NotNull(cow_log.rows[r][ColIdx(cow_log, cowid_col)])})
    IN [r \in 1..Len(sel.rows) |-> CowKey(sel.rows[r][ColIdx(cow_log, cowid_col)])]

\* cow_log[cowid_col].dropna().astype(str).str.strip().unique().tolist()
cow_ids_of(cow_log, cowid_col) ==
    LET sel == FilterRows(cow_log, {r \in 1..Len(cow_log.rows) :
                    NotNull(cow_log.rows[r][ColIdx(cow_log, cowid_col)])})
    IN Unique([r \in 1..Len(sel.rows) |-> CowKey(sel.rows[r][ColIdx(cow_log, cowid_col)])])

\* cow_rows["Date"].min(): the rows of the frame have no NaT left
CowRows(cow_log, cowid_col, cowid) ==
    {r \in 1..Len(cow_log.rows) :
        CowKey(cow_log.rows[r][ColIdx(cow_log, cowid_col)]) = Strip(cowid)}
FirstDate(cow_log, rows) ==
    CHOOSE d \in {cow_log.rows[r][ColIdx(cow_log, DATE)].n : r \in rows} :
        \A r \in rows : d <= cow_log.rows[r][ColIdx(cow_log, DATE)].n
Max(a, b) == IF a >= b THEN a ELSE b
cow_start_of(cow_log, cowid_col, cowid) ==
    Max(VALIDATION_START, FirstDate(cow_log, CowRows(cow_log, cowid_col, cowid)))

\* a card of missing_cards; date is the day that date_str spells
Card(kind, cowid, date, shift) ==
    [kind |-> kind, cowid |-> cowid, date |-> date, shift |-> shift]

\* the cards one day adds for one cow: Morning, then Evening
MilkingDayCards(cow_log, d, shift_col, cowid_col, cowid) ==
    (IF ~has_shift_on_date_for_cow(cow_log, d, shift_col, cowid_col, cowid, MORNING)
     THEN <<Card("milking", cowid, d, "Morning")>> ELSE <<>>)
    \o
    (IF ~has_shift_on_date_for_cow(cow_log, d, shift_col, cowid_col, cowid, EVENING)
     THEN <<Card("milking", cowid, d, "Evening")>> ELSE <<>>)

\* for d in pd.date_range(start, end_, freq="D")
RECURSIVE MilkingRangeCards(_, _, _, _, _, _)
MilkingRangeCards(cow_log, start, end_, shift_col, cowid_col, cowid) ==
    IF start > end_ THEN <<>>
    ELSE MilkingRangeCards(cow_log, start, end_ - 1, shift_col, cowid_col, cowid)
         \o MilkingDayCards(cow_log, end_, shift_col, cowid_col, cowid)

\* the body of `for cowid in cow_ids`
CowCards(cow_log, today_norm, shift_col, cowid_col, cowid) ==
    IF CowRows(cow_log, cowid_col, cowid) = {} \/ ~HasCol(cow_log, DATE) THEN <<>>
    ELSE IF cow_start_of(cow_log, cowid_col, cowid) > today_norm THEN <<>>
    ELSE MilkingRangeCards(cow_log, cow_start_of(cow_log, cowid_col, cowid),
                           today_norm, shift_col, cowid_col, cowid)

RECURSIVE AllCowCards(_, _, _, _, _)
AllCowCards(cow_log, today_norm, shift_col, cowid_col, ids) ==
    IF ids = <<>> THEN <<>>
    ELSE CowCards(cow_log, today_norm, shift_col, cowid_col, Head(ids))
         \o AllCowCards(cow_log, today_norm, shift_col, cowid_col, Tail(ids))

\* a variant of MilkingCards whose fallback goes through the days once more
\* when the log has several rows
MilkingCardsPerRow(cow_log, today_norm) ==
    LET shift_col == shift_col_of(cow_log)
        cowid_col == cowid_col_of(cow_log)
        once == MilkingRangeCards(cow_log, VALIDATION_START, today_norm,
                                  shift_col, cowid_col, <<>>)
    IN IF cowid_col # None /\ ~IsEmpty(cow_log)
       THEN AllCowCards(cow_log, today_norm, shift_col, cowid_col,
                        cow_ids_of(cow_log, cowid_col))
       ELSE IF Len(cow_log.rows) >= 2 THEN once \o once ELSE once

\* "Per-CowID Milking & Feeding validation" and its fallback
MilkingCards(cow_log, today_norm) ==
    LET shift_col == shift_col_of(cow_log)
        cowid_col == cowid_col_of(cow_log)
    IN IF cowid_col # None /\ ~IsEmpty(cow_log)
       THEN AllCowCards(cow_log, today_norm, shift_col, cowid_col,
                        cow_ids_of(cow_log, cowid_col))
       ELSE MilkingRangeCards(cow_log, VALIDATION_START, today_norm,
                              shift_col, cowid_col, <<>>)

\* "Global Milk Distribution validation (one per date)"
DistributionDayCards(milk_m, milk_e, d) ==
    (IF ~has_any_on_date(milk_m, d)
     THEN <<Card("distribution", <<>>, d, "Morning")>> ELSE <<>>)
    \o
    (IF ~has_any_on_date(milk_e, d)
     THEN <<Card("distribution", <<>>, d, "Evening")>> ELSE <<>>)

\* a variant of DistributionCards that lists one channel after the other
RECURSIVE ChannelCards(_, _, _, _)
ChannelCards(table, shift, start, end_) ==
    IF start > end_ THEN <<>>
    ELSE ChannelCards(table, shift, start, end_ - 1)
         \o (IF ~has_any_on_date(table, end_)
             THEN <<Card("distribution", <<>>, end_, shift)>> ELSE <<>>)
DistributionCardsByChannel(milk_m, milk_e, start, end_) ==
    ChannelCards(milk_m, "Morning", start, end_)
    \o ChannelCards(milk_e, "Evening", start, end_)

RECURSIVE DistributionCards(_, _, _, _)
DistributionCards(milk_m, milk_e, start, end_) ==
    IF start > end_ THEN <<>>
    ELSE DistributionCards(milk_m, milk_e, start, end_ - 1)
         \o DistributionDayCards(milk_m, milk_e, end_)

\* missing_cards of one run; nothing is scanned when VALIDATION_START is
\* after today
missing_cards_of(cow_log, milk_m, milk_e, today_norm) ==
    IF VALIDATION_START > today_norm THEN <<>>
    ELSE MilkingCards(cow_log, today_norm)
         \o DistributionCards(milk_m, milk_e, VALIDATION_START, today_norm)

\* ------------------------------------------------------------------------
\* Dashboard: steps that can raise, and the chart's date range
\* ------------------------------------------------------------------------
\* row["Shift - पहर"] if "Shift - पहर" in row else row.get("Shift", "")
ShiftOfRow(df, r) ==
    IF HasCol(df, SHIFT_PAHAR) THEN df.rows[r][ColIdx(df, SHIFT_PAHAR)]
    ELSE IF HasCol(df, SHIFT) THEN df.rows[r][ColIdx(df, SHIFT)]
    ELSE Str(<<>>)

\* rows that sort_values("Date", ascending=False) may put first
LatestRows(df) ==
    {r \in 1..Len(df.rows) :
        \A q \in 1..Len(df.rows) :
            df.rows[q][ColIdx(df, DATE)].n <= df.rows[r][ColIdx(df, DATE)].n}

\* get_latest_delivery(shift) raises on a frame with rows and no Date column
DeliveryRaises(target_df) == ~IsEmpty(target_df) /\ ~HasCol(target_df, DATE)

\* the exception "Latest Summary" ends with when its first row is r ("" if none)
LatestError(cow, milk_m, milk_e, r) ==
    IF ~HasCol(cow, DATE) THEN "KeyError"
    ELSE IF Len(cow.rows) < 2 THEN "IndexError"
    ELSE IF ShiftOfRow(cow, r).t # "str" THEN "AttributeError"
    ELSE IF DeliveryRaises(milk_m) \/ DeliveryRaises(milk_e) THEN "KeyError"
    ELSE ""

RangeOptions ==
    {"1 Week", "1 Month", "3 Months", "6 Months", "1 Year", "3 Years", "5 Years", "Max"}

\* date_limit as an instant; today is [day, tod]
date_limit_of(option, today) ==
    CASE option = "1 Week" -> Instant(today.day - WeekDays, today.tod)
      [] option = "1 Month" -> Instant(today.day - DaysInMonth, today.tod)
      [] option = "3 Months" -> Instant(today.day - 3 * DaysInMonth, today.tod)
      [] option = "6 Months" -> Instant(today.day - 6 * DaysInMonth, today.tod)
      [] option = "1 Year" -> Instant(today.day - DaysInYear, today.tod)
      [] option = "3 Years" -> Instant(today.day - 3 * DaysInYear, today.tod)
      [] option = "5 Years" -> Instant(today.day - 5 * DaysInYear, today.tod)
      [] option = "Max" -> Midnight(START_DATE)

\* "Prepare production data": df_cow_log is rebound to its rows from
\* date_limit on, when it has rows and a milk column
ChartCowLog(df_cow_log, milk_col, date_limit) ==
    IF ~IsEmpty(df_cow_log) /\ milk_col # None
    THEN FilterRows(MapCol(df_cow_log, DATE, to_datetime),
                    DateRows(MapCol(df_cow_log, DATE, to_datetime),
                             LAMBDA d : Midnight(d) >= date_limit))
    ELSE df_cow_log

\* the members of a set of days, ascending
RECURSIVE DaySeq(_)
DaySeq(S) ==
    IF S = {} THEN <<>>
    ELSE LET least == CHOOSE x \in S : \A y \in S : x <= y
         IN <<least>> \o DaySeq(S \ {least})

\* the column has a numeric dtype: every cell is a number or empty
NumberColumn(d, name) ==
    \A r \in 1..Len(d.rows) : d.rows[r][ColIdx(d, name)].t \in {"num", "nan"}

\* rows of the frame whose Date reads as the day, and the days the rows have
RowsOfDay(d, day) ==
    IF HasCol(d, DATE)
    THEN {r \in 1..Len(d.rows) : to_datetime(d.rows[r][ColIdx(d, DATE)]) = Ts(day)}
    ELSE {}
DaysOf(d) ==
    IF HasCol(d, DATE)
    THEN {to_datetime(d.rows[r][ColIdx(d, DATE)]).n :
            r \in {q \in 1..Len(d.rows) : to_datetime(d.rows[q][ColIdx(d, DATE)]).t = "ts"}}
    ELSE {}

\* the texts of a column's cells, in row order, put together
RECURSIVE TextsJoined(_)
TextsJoined(cells) ==
    IF cells = <<>> THEN <<>>
    ELSE (IF Head(cells).t = "str" THEN Head(cells).s ELSE <<>>) \o TextsJoined(Tail(cells))

\* df_cow_log.groupby("Date")[milk_col].sum() for one day: the sum of the
\* day's numbers; over a column kept as text, the day's texts put together
DayProduced(d, col, day) ==
    LET rows == FilterRows(d, RowsOfDay(d, day))
    IN IF NumberColumn(d, col) THEN Num(CoercedSum(rows, col))
       ELSE Str(TextsJoined(Column(rows, col)))

\* daily_prod: the days of the chart's cow log, when it has rows and a milk
\* column
DailyProdDays(df_cow_log, col) ==
    IF ~IsEmpty(df_cow_log) /\ col # None THEN DaysOf(df_cow_log) ELSE {}

\* combine_distribution: the columns of pd.concat([df1, df2]) that
\* select_dtypes(include="number") keeps. A column is a number column when it
\* is one in every frame that has it. Whether pd.concat counts the dtypes of
\* a frame without rows depends on the pandas version: text is the set of
\* columns such frames hold as text, when they are counted
ConcatNumberCols(df1, df2, text) ==
    {c \in (Range(df1.cols) \cup Range(df2.cols)) \ ({DATE} \cup text) :
        /\ HasCol(df1, c) => NumberColumn(df1, c)
        /\ HasCol(df2, c) => NumberColumn(df2, c)}

\* the columns a frame without rows holds as text: those read as text from
\* the sheet (all of them when the sheet had no rows)
TextColsOfEmpty(loaded, current) ==
    IF Len(current.rows) = 0
    THEN {c \in Range(loaded.cols) \ {DATE} :
            Len(loaded.rows) = 0 \/ ~NumberColumn(loaded, c)}
    ELSE {}

\* df_all["Total"] of the rows of one frame on one day
DayTotalOf(d, cols, day) ==
    SumSeq([k \in 1..Len(d.cols) |->
              IF d.cols[k] \in cols
              THEN CoercedColumnSum(FilterRows(d, RowsOfDay(d, day)), k) ELSE 0])

\* combine_distribution(df1, df2): Total of one day
DayDelivered(df1, df2, text, day) ==
    DayTotalOf(df1, ConcatNumberCols(df1, df2, text), day)
    + DayTotalOf(df2, ConcatNumberCols(df1, df2, text), day)

\* df_delivery: the days of combine_distribution from date_limit on
DeliveryDays(df1, df2, date_limit) ==
    {x \in DaysOf(df1) \cup DaysOf(df2) : Midnight(x) >= date_limit}

\* chart_df: pd.merge(daily_prod, df_delivery, on="Date", how="outer")
\* .fillna(0), when both have rows; no chart otherwise
ChartShown(df_cow_log, col, df1, df2, date_limit) ==
    /\ DailyProdDays(df_cow_log, col) # {}
    /\ DeliveryDays(df1, df2, date_limit) # {}
\* a variant of ChartDf that keeps only the days both sides have
ChartDfInner(df_cow_log, col, df1, df2, text, date_limit) ==
    IF ChartShown(df_cow_log, col, df1, df2, date_limit)
    THEN LET days == DaySeq(DailyProdDays(df_cow_log, col)
                            \cap DeliveryDays(df1, df2, date_limit))
         IN [i \in 1..Len(days) |->
               [Date |-> days[i],
                Produced |-> DayProduced(df_cow_log, col, days[i]),
                Delivered |-> DayDelivered(df1, df2, text, days[i])]]
    ELSE <<>>

ChartDf(df_cow_log, col, df1, df2, text, date_limit) ==
    IF ChartShown(df_cow_log, col, df1, df2, date_limit)
    THEN LET days == DaySeq(DailyProdDays(df_cow_log, col)
                            \cup DeliveryDays(df1, df2, date_limit))
         IN [i \in 1..Len(days) |->
               [Date |-> days[i],
                Produced |-> IF days[i] \in DailyProdDays(df_cow_log, col)
                             THEN DayProduced(df_cow_log, col, days[i]) ELSE Num(0),
                Delivered |-> IF days[i] \in DeliveryDays(df1, df2, date_limit)
                              THEN DayDelivered(df1, df2, text, days[i]) ELSE 0]]
    ELSE <<>>

\* combine_distribution(df1, df2) reads df_all["Date"]
CombineRaises(df1, df2) == ~HasCol(df1, DATE) /\ ~HasCol(df2, DATE)

\* "Normalize Date columns" of the scan's copies
AuditDates(dfr) ==
    IF IsEmpty(dfr) \/ ~HasCol(dfr, DATE) THEN dfr ELSE MapCol(dfr, DATE, to_datetime)

\* ------------------------------------------------------------------------
\* Milk Distribution page
\* ------------------------------------------------------------------------
clean_and_filter(df) ==
    IF IsEmpty(df) \/ ~HasCol(df, DATE) THEN df
    ELSE MapCol(FilterRows(MapCol(df, DATE, to_datetime),
                           DateRows(MapCol(df, DATE, to_datetime),
                                    LAMBDA d : d >= START_DATE)),
                DATE, strftime_dmy)

total_milk_distributed(df) ==
    IF IsEmpty(df) THEN 0
    ELSE LET numeric_cols ==
                 SelectIdx(Len(df.cols),
                           {k \in 1..Len(df.cols) : df.cols[k] \notin {TIMESTAMP, DATE}})
         IN SumSeq([j \in 1..Len(numeric_cols) |->
                        CoercedColumnSum(df, numeric_cols[j])])

\* monthly_distribution(df): df["Date"] is parsed back in place
MonthlyParsed(df) ==
    IF IsEmpty(df) \/ ~HasCol(df, DATE) THEN df ELSE MapCol(df, DATE, to_datetime_dmy)
monthly_distribution(df, today) ==
    IF IsEmpty(df) \/ ~HasCol(df, DATE) THEN 0
    ELSE total_milk_distributed(
            FilterRows(MonthlyParsed(df),
                       DateRows(MonthlyParsed(df),
                                LAMBDA d : MonthOf(d) = MonthOf(today)
                                           /\ YearOf(d) = YearOf(today))))

\* df_cow_log.columns = [c.strip().lower() for c in df_cow_log.columns]
LowerCols(df) ==
    [cols |-> [k \in 1..Len(df.cols) |-> Lower(Strip(df.cols[k]))], rows |-> df.rows]

\* total_milk_produced_month of the Milk Distribution page
DistProducedMonth(df_cow_log, today) ==
    IF IsEmpty(df_cow_log) THEN 0
    ELSE LET low == LowerCols(df_cow_log)
             date == Lower(DATE)
             milking == Lower(MILKING_DOODH)
             parsed == MapCol(low, date, to_datetime)
         IN IF HasCol(low, date) /\ HasCol(low, milking)
            THEN CoercedSum(
                    FilterRows(parsed,
                        {r \in 1..Len(parsed.rows) :
                            /\ parsed.rows[r][ColIdx(parsed, date)].t = "ts"
                            /\ parsed.rows[r][ColIdx(parsed, date)].n >= START_DATE
                            /\ MonthOf(parsed.rows[r][ColIdx(parsed, date)].n) = MonthOf(today)
                            /\ YearOf(parsed.rows[r][ColIdx(parsed, date)].n) = YearOf(today)}),
                    milking)
            ELSE 0

\* df.sort_values("Date") of a table with rows, and the trend chart's
\* df_temp["Date"], need the Date column
DistPageRaises(df_morning, df_evening) ==
    \/ ~IsEmpty(df_morning) /\ ~HasCol(df_morning, DATE)
    \/ ~IsEmpty(df_evening) /\ ~HasCol(df_evening, DATE)
    \/ /\ ~IsEmpty(df_morning) \/ ~IsEmpty(df_evening)
       /\ ~HasCol(df_morning, DATE) \/ ~HasCol(df_evening, DATE)

\* ------------------------------------------------------------------------
\* State
\* ------------------------------------------------------------------------
VARIABLES
    sheets,         \* the tables of the Google Sheets, as CSV text
    down,           \* the source whose fetch raises ("none": all are reachable)
    now,            \* pd.Timestamp.today(): [day, tod]
    page,           \* the page the sidebar selects
    pc,             \* position of the script run
    df,             \* the frames of the run (df_cow_log, df_milk_m, ...)
    milk_col,       \* milk_col
    metrics,        \* the values shown by st.metric, and the terms of fund_bipin
    range_option,   \* range_option
    missing_cards,  \* missing_cards
    error,          \* the exception that ended the run ("" if none)
    call,           \* one call of a utility function: arguments and result
    clock,          \* time, in ticks of half the TTL of st.cache_data
    cache,          \* the entries of st.cache_data for load_csv, by source
    objs,           \* the DataFrame objects: the cached one and the sessions' own
    refs,           \* per session and source: the object the run holds, its stage
    served,         \* the last load_csv call: hit or fetch, and what it returned
    view            \* the tables the pages show: per-group totals, chart table

vars == <<sheets, down, now, page, pc, df, milk_col, metrics, range_option,
          missing_cards, error, call, clock, cache, objs, refs, served, view>>

Sources == {"cow", "expense", "milk_m", "milk_e", "payment", "investment"}

MetricNames ==
    {"total_milk_produced", "total_milk_distributed", "remaining_milk",
     "total_expense", "total_payment_received", "total_investment",
     "investment_bipin", "received_bipin", "expense_bipin", "fund_bipin",
     "milk_month", "milk_distributed_month", "remaining_milk_month",
     "expense_month", "payment_month",
     "dist_total_distributed", "dist_monthly_distributed",
     "dist_total_milk_produced_month", "dist_remaining_milk"}

\* st.cache_data(ttl=600), seconds
TTL == 600
TickSeconds == TTL \div 2
\* the sessions (browser tabs) whose runs share the cache, and the sources
\* whose cache entries are followed
Sessions == {1, 2}
WatchedSources == {"cow"}
\* object 0 of a source is the one the cache holds
Holders == {0} \cup Sessions
NoEntry == [has |-> FALSE, at |-> 0, refreshed |-> FALSE, fetched |-> EmptyDF]
NoServed == [src |-> "none", had |-> FALSE, hit |-> FALSE, age |-> 0,
             refreshed |-> FALSE, value |-> EmptyDF]
\* nothing cached, no run under way
ColdCache ==
    /\ clock = 0
    /\ cache = [k \in WatchedSources |-> NoEntry]
    /\ objs = [h \in Holders |-> [k \in WatchedSources |-> EmptyDF]]
    /\ refs = [s \in Sessions |-> [k \in WatchedSources |-> [obj |-> 0, stage |-> "idle"]]]
    /\ served = NoServed

NoCall == [fn |-> "none", df |-> EmptyDF, excl |-> {}, result |-> 0, returned |-> FALSE]

\* ------------------------------------------------------------------------
\* The sheets the model draws from
\* ------------------------------------------------------------------------
SeqsUpTo(S, n) == UNION {[1..k -> S] : k \in 0..n}

COW1 == <<"c","1">>
COW1_SPACED == <<" ","c","1"," ">>
COW1_UPPER == <<"C","1">>
COW2 == <<"c","2">>
BAD_TEXT == <<"x">>
TS_TEXT == Str(<<"t">>)

CowCols == <<TIMESTAMP, DATE, COWID, SHIFT_PAHAR, MILKING_DOODH>>
CowRow(date, cow, shift, milk) == <<TS_TEXT, date, Str(cow), shift, milk>>

\* the day before the scan starts, its first day and the day after
CowDays == (VALIDATION_START - 1)..(VALIDATION_START + 1)

\* each cow in each shift on the first day of the scan and the day after, and
\* one row of each cow on the day before
CowRowChoices ==
    {CowRow(DTxt(d), c, Str(s), Str(<<"5">>)) :
        d \in CowDays \ {VALIDATION_START - 1}, c \in {COW1, COW2},
        s \in {MORNING, EVENING}}
    \cup {CowRow(DTxt(VALIDATION_START - 1), COW1, Str(MORNING), Str(<<"5">>)),
          CowRow(DTxt(VALIDATION_START - 1), COW2, Str(EVENING), Str(<<"5">>))}

\* rows with another spelling of the cow, an unreadable date, another shift
\* text, no shift, an unreadable milk value
CowRowExtras ==
    {CowRow(DTxt(VALIDATION_START), c, Str(MORNING), Str(<<"5">>)) :
        c \in {COW1_SPACED, COW1_UPPER}}
    \cup {CowRow(Str(BAD_TEXT), COW1, Str(MORNING), Str(<<"5">>)),
          CowRow(DTxt(VALIDATION_START), COW1, Str(<<"A","M">>), Str(BAD_TEXT)),
          CowRow(DTxt(VALIDATION_START), COW1, NaN, Str(<<"7">>))}

\* s with x put in at position i
InsertAt(s, i, x) == SubSeq(s, 1, i - 1) \o <<x>> \o SubSeq(s, i, Len(s))

CowSheet(rows) == [cols |-> CowCols, rows |-> rows]

MilkCols == <<TIMESTAMP, DATE, CUSTOMER_A, CUSTOMER_B>>
MilkRow(date, a, b) == <<TS_TEXT, date, a, b>>
MilkRowChoices ==
    {MilkRow(d, a, Str(<<"3">>)) :
        d \in {DTxt(x) : x \in (VALIDATION_START - 1)..(VALIDATION_START + 1)}
              \cup {Str(BAD_TEXT)},
        a \in {Str(<<"5">>), Str(<<"1","2">>), Str(BAD_TEXT), NaN}}
MilkSheet(rows) == [cols |-> MilkCols, rows |-> rows]

LedgerSheet(by, rows) == [cols |-> <<TIMESTAMP, DATE, AMOUNT, by>>, rows |-> rows]
LedgerRow(date, amount, who) == <<TS_TEXT, date, amount, Str(who)>>

StdCowRows ==
    <<CowRow(DTxt(VALIDATION_START), COW1, Str(EVENING), Str(<<"5">>)),
      CowRow(DTxt(VALIDATION_START + 1), COW1, Str(EVENING), Str(<<"7">>))>>
StdCow == CowSheet(StdCowRows)
StdMilkM == MilkSheet(<<MilkRow(DTxt(VALIDATION_START), Str(<<"5">>), Str(<<"3">>))>>)
StdMilkE == MilkSheet(<<MilkRow(DTxt(VALIDATION_START + 1), Str(<<"2">>), Str(<<"1">>))>>)
StdExpense ==
    LedgerSheet(EXPENSE_BY,
        <<LedgerRow(DTxt(VALIDATION_START), Str(<<"1","0","0">>), BIPIN_KUMAR)>>)
StdPayment ==
    LedgerSheet(RECEIVED_BY,
        <<LedgerRow(DTxt(VALIDATION_START), Str(<<"2","0","0">>), BIPIN_KUMAR)>>)
StdInvestment ==
    LedgerSheet(PAID_TO,
        <<LedgerRow(DTxt(VALIDATION_START), Str(<<"5","0","0">>), BIPIN_KUMAR)>>)

Pages == {"Dashboard", "Milk Distribution"}

\* nothing shown yet: the tables and key metrics of the Milking & Feeding and
\* Expense pages, the chart table of the Dashboard
KpiNames ==
    {"total_milk_produced", "total_milk_month", "total_distributed",
     "total_expense", "monthly_expense"}
NoView == [cow_wise |-> <<>>, expense_by_type |-> <<>>, expense_by_person |-> <<>>,
           kpi |-> [m \in KpiNames |-> 0], chart_shown |-> FALSE, chart_df |-> <<>>]
\* the days a run happens on: the day before the scan starts, its first day,
\* the day after and the last day
Todays == {VALIDATION_START - 1, VALIDATION_START, VALIDATION_START + 1, MaxToday}

InitSheets(sh, dn, day, tod, pg) ==
    /\ sheets = sh
    /\ down = dn
    /\ now = [day |-> day, tod |-> tod]
    /\ page = pg
    /\ pc = "start"
    /\ df = [k \in Sources |-> EmptyDF]
    /\ milk_col = None
    /\ metrics = [m \in MetricNames |-> 0]
    /\ range_option = "1 Month"
    /\ missing_cards = <<>>
    /\ error = ""
    /\ ColdCache
    /\ view = NoView

InitWith(cow, milk_m, milk_e, dn, day, tod, pg) ==
    InitSheets([cow |-> cow, expense |-> StdExpense, milk_m |-> milk_m,
                milk_e |-> milk_e, payment |-> StdPayment,
                investment |-> StdInvestment], dn, day, tod, pg)

\* the cow log varies
InitCow ==
    \E rows \in SeqsUpTo(CowRowChoices, MaxCowRows), day \in Todays, pg \in Pages :
        /\ InitWith(CowSheet(rows), StdMilkM, StdMilkE, "none", day, 1, pg)
        /\ call = NoCall

\* the cow log has one unusual row; the run may start at midnight sharp
InitCowExtra ==
    \E x \in CowRowExtras, i \in 1..(Len(StdCowRows) + 1), day \in Todays,
       tod \in {0, 1}, pg \in Pages :
        /\ InitWith(CowSheet(InsertAt(StdCowRows, i, x)), StdMilkM, StdMilkE,
                    "none", day, tod, pg)
        /\ call = NoCall

\* one of the distribution tables varies
InitMilk ==
    \E rows \in SeqsUpTo(MilkRowChoices, MaxMilkRows), morning \in BOOLEAN,
       day \in Todays, pg \in Pages :
        /\ InitWith(StdCow, IF morning THEN MilkSheet(rows) ELSE StdMilkM,
                    IF morning THEN StdMilkE ELSE MilkSheet(rows), "none", day, 1, pg)
        /\ call = NoCall

\* one source cannot be fetched
InitDown ==
    \E dn \in Sources, day \in Todays, pg \in Pages :
        /\ InitWith(StdCow, StdMilkM, StdMilkE, dn, day, 1, pg)
        /\ call = NoCall

\* one sheet lacks one of its columns
StdSheets ==
    [cow |-> StdCow, expense |-> StdExpense, milk_m |-> StdMilkM,
     milk_e |-> StdMilkE, payment |-> StdPayment, investment |-> StdInvestment]
ExpectedCols(k) ==
    CASE k = "cow" -> {DATE, COWID, SHIFT_PAHAR, MILKING_DOODH}
      [] k \in {"milk_m", "milk_e"} -> {DATE}
      [] k = "expense" -> {DATE, AMOUNT, EXPENSE_BY}
      [] k = "payment" -> {DATE, AMOUNT, RECEIVED_BY}
      [] k = "investment" -> {DATE, AMOUNT, PAID_TO}
InitSchema ==
    \E k \in Sources, day \in Todays, pg \in Pages :
        \E c \in ExpectedCols(k) :
            /\ InitSheets([StdSheets EXCEPT ![k] = DropCols(@, {c})],
                          "none", day, 1, pg)
            /\ call = NoCall

\* one of the ledgers varies: amounts that are numbers or not, rows dated
\* before START_DATE, other spellings of the party and another party
BIPIN_LOWER == Lower(BIPIN_KUMAR)
BIPIN_SPACED == <<" ">> \o BIPIN_KUMAR \o <<" ">>
BIPIN_LONGER == BIPIN_KUMAR \o <<" ", "J", "i">>
OTHER_PARTY == <<"R", "a", "m">>
BIG_AMOUNT == Str(<<"9", "0", "0">>)
Ledgers == {"expense", "payment", "investment"}
PartyCol(k) ==
    CASE k = "expense" -> EXPENSE_BY
      [] k = "payment" -> RECEIVED_BY
      [] k = "investment" -> PAID_TO
LedgerRowChoices ==
    {LedgerRow(DTxt(VALIDATION_START), BIG_AMOUNT, who) :
        who \in {BIPIN_KUMAR, BIPIN_LOWER, BIPIN_SPACED, BIPIN_LONGER, OTHER_PARTY}}
    \cup {LedgerRow(DTxt(VALIDATION_START - 1), BIG_AMOUNT, BIPIN_KUMAR),
          LedgerRow(DTxt(VALIDATION_START), Str(BAD_TEXT), BIPIN_KUMAR),
          LedgerRow(DTxt(VALIDATION_START), Str(BAD_TEXT), OTHER_PARTY)}
InitLedger ==
    \E k \in Ledgers, rows \in SeqsUpTo(LedgerRowChoices, MaxLedgerRows) :
        /\ InitSheets([StdSheets EXCEPT ![k] = LedgerSheet(PartyCol(k), rows)],
                      "none", MaxToday, 1, "Dashboard")
        /\ call = NoCall

Init == InitCow \/ InitCowExtra \/ InitMilk \/ InitDown \/ InitSchema \/ InitLedger

\* ------------------------------------------------------------------------
\* Dashboard page
\* ------------------------------------------------------------------------
\* "Load Data": the six load_csv calls
DashLoad ==
    /\ pc = "start" /\ page = "Dashboard"
    /\ df' = [k \in Sources |-> load_csv(sheets[k], down = k, {TIMESTAMP})]
    /\ pc' = "loaded"
    /\ UNCHANGED <<view, clock, cache, objs, refs, served, sheets, down, now, page, milk_col, metrics, range_option,
                   missing_cards, error, call>>

\* "Filter from 1 Nov 2025"
DashDateFilter ==
    /\ pc = "loaded"
    /\ df' = [k \in Sources |-> DateFilterLoop(df[k])]
    /\ pc' = "filtered"
    /\ UNCHANGED <<view, clock, cache, objs, refs, served, sheets, down, now, page, milk_col, metrics, range_option,
                   missing_cards, error, call>>

LifetimeError(d) ==
    IF AmountRaises(d.expense) \/ AmountRaises(d.payment) \/ AmountRaises(d.investment)
    THEN "KeyError"
    ELSE IF PartyRaises(d.investment, PAID_TO) /\ ~HasCol(d.investment, AMOUNT)
         THEN "KeyError"
    ELSE IF \/ PartyRaises(d.investment, PAID_TO)
            \/ PartyRaises(d.payment, RECEIVED_BY)
            \/ PartyRaises(d.expense, EXPENSE_BY)
         THEN "TypeError"
    ELSE ""

LifetimeMetrics(d) ==
    LET produced == MilkProduced(d.cow)
        distributed == MilkDistributed(d.milk_m, d.milk_e)
    IN [metrics EXCEPT
          !["total_milk_produced"] = produced,
          !["total_milk_distributed"] = distributed,
          !["remaining_milk"] = Remaining(produced, distributed),
          !["total_expense"] = AmountTotal(d.expense),
          !["total_payment_received"] = AmountTotal(d.payment),
          !["total_investment"] = AmountTotal(d.investment),
          !["investment_bipin"] = PartyTotal(d.investment, PAID_TO),
          !["received_bipin"] = PartyTotal(d.payment, RECEIVED_BY),
          !["expense_bipin"] = PartyTotal(d.expense, EXPENSE_BY),
          !["fund_bipin"] = Fund(PartyTotal(d.investment, PAID_TO),
                                 PartyTotal(d.payment, RECEIVED_BY),
                                 PartyTotal(d.expense, EXPENSE_BY))]

\* "Lifetime Summary" and its metrics
DashLifetime ==
    /\ pc = "filtered"
    /\ milk_col' = milk_col_of(df.cow)
    /\ IF LifetimeError(df) # ""
       THEN /\ pc' = "crashed"
            /\ error' = LifetimeError(df)
            /\ UNCHANGED metrics
       ELSE /\ pc' = "lifetime"
            /\ metrics' = LifetimeMetrics(df)
            /\ UNCHANGED error
    /\ UNCHANGED <<view, clock, cache, objs, refs, served, sheets, down, now, page, df, range_option, missing_cards, call>>

\* "Latest Summary": the order of rows of one date after sort_values is
\* not fixed, so the first row is any row of the latest date
DashLatest ==
    /\ pc = "lifetime"
    /\ \E r \in (IF HasCol(df.cow, DATE) /\ Len(df.cow.rows) >= 2
                 THEN LatestRows(df.cow) ELSE {0}) :
        LET e == LatestError(df.cow, df.milk_m, df.milk_e, r)
        IN /\ pc' = IF e # "" THEN "crashed" ELSE "latest"
           /\ error' = e
    /\ UNCHANGED <<view, clock, cache, objs, refs, served, sheets, down, now, page, df, milk_col, metrics, range_option,
                   missing_cards, call>>

MonthMetrics(d, today) ==
    LET produced == MilkProduced(filter_month(d.cow, today))
        distributed == MilkDistributed(filter_month(d.milk_m, today),
                                       filter_month(d.milk_e, today))
    IN [metrics EXCEPT
          !["milk_month"] = produced,
          !["milk_distributed_month"] = distributed,
          !["remaining_milk_month"] = Remaining(produced, distributed),
          !["expense_month"] = AmountTotal(filter_month(d.expense, today)),
          !["payment_month"] = AmountTotal(filter_month(d.payment, today))]

\* "Current Month Summary"
DashMonth ==
    /\ pc = "latest"
    /\ milk_col' = milk_col_of(filter_month(df.cow, now.day))
    /\ IF \/ AmountRaises(filter_month(df.expense, now.day))
          \/ AmountRaises(filter_month(df.payment, now.day))
       THEN /\ pc' = "crashed"
            /\ error' = "KeyError"
            /\ UNCHANGED metrics
       ELSE /\ pc' = "month"
            /\ metrics' = MonthMetrics(df, now.day)
            /\ UNCHANGED error
    /\ UNCHANGED <<view, clock, cache, objs, refs, served, sheets, down, now, page, df, range_option, missing_cards, call>>

\* "Milk Production vs Delivery Trend": the radio's choice, the cow log cut
\* at date_limit, the combined distribution
DashChart ==
    /\ pc = "month"
    /\ \E option \in RangeOptions, counted \in BOOLEAN :
        LET date_limit == date_limit_of(option, now)
            cow == ChartCowLog(df.cow, milk_col, date_limit)
            text == IF counted
                    THEN UNION {TextColsOfEmpty(load_csv(sheets[k], down = k, {TIMESTAMP}),
                                                df[k]) : k \in {"milk_m", "milk_e"}}
                    ELSE {}
        IN /\ range_option' = option
           /\ df' = [df EXCEPT !.cow = cow]
           /\ view' = IF CombineRaises(df.milk_m, df.milk_e) THEN view
                      ELSE [view EXCEPT
                              !.chart_shown = ChartShown(cow, milk_col, df.milk_m,
                                                         df.milk_e, date_limit),
                              !.chart_df = ChartDf(cow, milk_col, df.milk_m, df.milk_e,
                                                   text, date_limit)]
    /\ IF CombineRaises(df.milk_m, df.milk_e)
       THEN pc' = "crashed" /\ error' = "KeyError"
       ELSE pc' = "chart" /\ UNCHANGED error
    /\ UNCHANGED <<clock, cache, objs, refs, served, sheets, down, now, page, milk_col, metrics, missing_cards, call>>

\* "Pending Entries"
DashAudit ==
    /\ pc = "chart"
    /\ missing_cards' = missing_cards_of(AuditDates(df.cow), AuditDates(df.milk_m),
                                         AuditDates(df.milk_e), now.day)
    /\ pc' = "done"
    /\ UNCHANGED <<view, clock, cache, objs, refs, served, sheets, down, now, page, df, milk_col, metrics, range_option,
                   error, call>>

\* ------------------------------------------------------------------------
\* Milk Distribution page (one run)
\* ------------------------------------------------------------------------
DistPage ==
    /\ pc = "start" /\ page = "Milk Distribution"
    /\ LET df_morning == clean_and_filter(load_csv(sheets.milk_m, down = "milk_m", {TIMESTAMP}))
           df_evening == clean_and_filter(load_csv(sheets.milk_e, down = "milk_e", {TIMESTAMP}))
           df_cow_log == load_csv(sheets.cow, down = "cow", {TIMESTAMP})
           monthly == monthly_distribution(df_morning, now.day)
                      + monthly_distribution(df_evening, now.day)
           produced == DistProducedMonth(df_cow_log, now.day)
       IN /\ metrics' = [metrics EXCEPT
                !["dist_total_distributed"] =
                    total_milk_distributed(df_morning) + total_milk_distributed(df_evening),
                !["dist_monthly_distributed"] = monthly,
                !["dist_total_milk_produced_month"] = produced,
                !["dist_remaining_milk"] = Remaining(produced, monthly)]
          /\ df' = [df EXCEPT !.milk_m = MonthlyParsed(df_morning),
                              !.milk_e = MonthlyParsed(df_evening),
                              !.cow = df_cow_log]
          /\ IF DistPageRaises(df_morning, df_evening)
             THEN pc' = "crashed" /\ error' = "KeyError"
             ELSE pc' = "done" /\ UNCHANGED error
    /\ UNCHANGED <<view, clock, cache, objs, refs, served, sheets, down, now, page, milk_col, range_option, missing_cards, call>>

Next ==
    \/ DashLoad
    \/ DashDateFilter
    \/ DashLifetime
    \/ DashLatest
    \/ DashMonth
    \/ DashChart
    \/ DashAudit
    \/ DistPage

Spec == Init /\ [][Next]_vars

\* ------------------------------------------------------------------------
\* Dashboard runs on cow logs whose role columns are missing or matched by
\* more than one column
\* ------------------------------------------------------------------------
COW_NAME == <<"C","o","w"," ","N","a","m","e">>
MILK_FAT == <<"M","i","l","k"," ","F","a","t">>

RoleCols ==
    {CowCols,
     <<TIMESTAMP, DATE, SHIFT_PAHAR, MILKING_DOODH>>,
     <<TIMESTAMP, DATE, COWID, MILKING_DOODH>>,
     <<TIMESTAMP, DATE, MILKING_DOODH>>,
     <<TIMESTAMP, DATE, COWID, COW_NAME, SHIFT_PAHAR, SHIFT, MILKING_DOODH, MILK_FAT>>}

OtherShift(s) == IF s = MORNING THEN EVENING ELSE MORNING

\* a row of cow c in shift s on day d; the second cow column holds another
\* text, the second shift column the other shift
RoleRow(cols, d, c, s) ==
    [k \in 1..Len(cols) |->
        CASE cols[k] = TIMESTAMP -> TS_TEXT
          [] cols[k] = DATE -> DTxt(d)
          [] cols[k] = COWID -> Str(c)
          [] cols[k] = COW_NAME -> Str(BAD_TEXT)
          [] cols[k] = SHIFT_PAHAR -> Str(s)
          [] cols[k] = SHIFT -> Str(OtherShift(s))
          [] cols[k] = MILKING_DOODH -> Str(<<"5">>)
          [] cols[k] = MILK_FAT -> Str(<<"1">>)]

RoleRowChoices(cols) ==
    {RoleRow(cols, d, c, s) :
        d \in {VALIDATION_START, VALIDATION_START + 1}, c \in {COW1, COW2},
        s \in {MORNING, EVENING}}

InitRoles ==
    \E cols \in RoleCols, day \in Todays :
        \E rows \in SeqsUpTo(RoleRowChoices(cols), MaxCowRows) :
            /\ InitWith([cols |-> cols, rows |-> rows], StdMilkM, StdMilkE,
                        "none", day, 1, "Dashboard")
            /\ call = NoCall

NextScan ==
    \/ DashLoad
    \/ DashDateFilter
    \/ DashLifetime
    \/ DashLatest
    \/ DashMonth
    \/ DashChart
    \/ DashAudit

InitScan == InitRoles \/ (InitCowExtra /\ page = "Dashboard")

SpecScan == InitScan /\ [][NextScan]_vars

\* ------------------------------------------------------------------------
\* One call of sum_numeric_columns on a loaded table
\* ------------------------------------------------------------------------
SumRowChoices ==
    {<<d, a, b>> :
        d \in {DTxt(VALIDATION_START)},
        a \in {Str(<<"5">>), Str(<<"1","2">>), Str(BAD_TEXT), NaN},
        b \in {Str(<<"3">>), Str(BAD_TEXT), NaN}}
SumTables ==
    {EmptyDF}
    \cup {read_csv([cols |-> <<DATE, CUSTOMER_A, CUSTOMER_B>>, rows |-> rows]) :
            rows \in SeqsUpTo(SumRowChoices, MaxCowRows)}
SumExcludes == SUBSET {TIMESTAMP, DATE, CUSTOMER_A, CUSTOMER_B}

InitSum ==
    /\ InitWith(StdCow, StdMilkM, StdMilkE, "none", VALIDATION_START, 1, "none")
    /\ \E d \in SumTables, x \in SumExcludes :
        call = [fn |-> "sum_numeric_columns", df |-> d, excl |-> x,
                result |-> 0, returned |-> FALSE]

CallSum ==
    /\ call.fn = "sum_numeric_columns" /\ ~call.returned
    /\ call' = [call EXCEPT !.result = sum_numeric_columns(call.df, call.excl),
                            !.returned = TRUE]
    /\ UNCHANGED <<view, clock, cache, objs, refs, served, sheets, down, now, page, pc, df, milk_col, metrics, range_option,
                   missing_cards, error>>

NextSum == CallSum

SpecSum == InitSum /\ [][NextSum]_vars

\* ------------------------------------------------------------------------
\* Calls of the aggregation helpers on one table object: a helper, the same
\* helper again, then another helper, all on the table the first call was
\* given
\* ------------------------------------------------------------------------
HelperNames ==
    {"sum_numeric_columns", "filter_month", "clean_and_filter", "monthly_distribution"}

NoResult == [raised |-> FALSE, n |-> 0, d |-> EmptyDF]

\* df["Date"].dt raises AttributeError unless the column holds datetimes
DtRaises(d) ==
    /\ ~IsEmpty(d) /\ HasCol(d, DATE)
    /\ \E r \in 1..Len(d.rows) : d.rows[r][ColIdx(d, DATE)].t \notin {"ts", "nat"}

\* what a helper returns
HelperResult(fn, d, today) ==
    CASE fn = "sum_numeric_columns" ->
            [NoResult EXCEPT !.n = sum_numeric_columns(d, {TIMESTAMP, DATE})]
      [] fn = "filter_month" ->
            IF DtRaises(d) THEN [NoResult EXCEPT !.raised = TRUE]
            ELSE [NoResult EXCEPT !.d = filter_month(d, today)]
      [] fn = "clean_and_filter" -> [NoResult EXCEPT !.d = clean_and_filter(d)]
      [] fn = "monthly_distribution" ->
            [NoResult EXCEPT !.n = monthly_distribution(d, today)]

\* the table a helper was given, after the call: clean_and_filter and
\* monthly_distribution assign df["Date"] before they filter
HelperLeaves(fn, d) ==
    CASE fn = "clean_and_filter" -> AuditDates(d)
      [] fn = "monthly_distribution" -> MonthlyParsed(d)
      [] OTHER -> d

CallRowChoices ==
    {MilkRow(d, a, Str(<<"3">>)) :
        d \in {DTxt(VALIDATION_START - 1), DTxt(VALIDATION_START),
               DTxt(MaxToday), Str(BAD_TEXT)},
        a \in {Str(<<"5">>), Str(BAD_TEXT)}}

\* tables as loaded, tables whose dates are parsed, tables as returned by
\* clean_and_filter
LoadedTables ==
    {load_csv(MilkSheet(rows), FALSE, {TIMESTAMP}) :
        rows \in SeqsUpTo(CallRowChoices, MaxCallRows)}
ParsedTables == {AuditDates(d) : d \in LoadedTables}
FormattedTables == {clean_and_filter(d) : d \in LoadedTables}

\* the helpers a page applies to a table whose dates are day-first text are
\* those that read them back with the format
HelpersOn(d) ==
    IF d \in FormattedTables /\ ~IsEmpty(d)
    THEN HelperNames \ {"clean_and_filter"}
    ELSE HelperNames

NewCalls(d, fn, other) ==
    [fn |-> fn, other |-> other, given |-> d, df |-> d, step |-> 0,
     again |-> FALSE, first |-> NoResult, second |-> NoResult, last |-> NoResult]

InitCalls ==
    /\ \E day \in {VALIDATION_START, MaxToday} :
        InitWith(StdCow, StdMilkM, StdMilkE, "none", day, 1, "none")
    /\ \E d \in LoadedTables \cup ParsedTables \cup FormattedTables :
        \E fn \in HelpersOn(d), other \in HelpersOn(d) :
            /\ fn # other
            /\ call = NewCalls(d, fn, other)

CallFirst ==
    /\ call.step = 0
    /\ call' = [call EXCEPT !.first = HelperResult(call.fn, call.df, now.day),
                            !.df = HelperLeaves(call.fn, call.df),
                            !.step = 1]
    /\ UNCHANGED <<view, clock, cache, objs, refs, served, sheets, down, now, page, pc, df, milk_col, metrics, range_option,
                   missing_cards, error>>

CallAgain ==
    /\ call.step = 1
    /\ call' = [call EXCEPT !.second = HelperResult(call.fn, call.df, now.day),
                            !.df = HelperLeaves(call.fn, call.df),
                            !.again = TRUE, !.step = 2]
    /\ UNCHANGED <<view, clock, cache, objs, refs, served, sheets, down, now, page, pc, df, milk_col, metrics, range_option,
                   missing_cards, error>>

CallOther ==
    /\ call.step \in {1, 2}
    /\ call' = [call EXCEPT !.last = HelperResult(call.other, call.df, now.day),
                            !.df = HelperLeaves(call.other, call.df),
                            !.step = 3]
    /\ UNCHANGED <<view, clock, cache, objs, refs, served, sheets, down, now, page, pc, df, milk_col, metrics, range_option,
                   missing_cards, error>>

NextCalls == CallFirst \/ CallAgain \/ CallOther

SpecCalls == InitCalls /\ [][NextCalls]_vars

\* ------------------------------------------------------------------------
\* load_csv under st.cache_data(ttl=600): runs of several sessions, the clock,
\* edits of the sheets and the Refresh button
\* ------------------------------------------------------------------------
\* the sheet of a watched source with one more row, whose date cannot be read
EditedSheet(k) ==
    IF k = "cow"
    THEN CowSheet(Append(StdCowRows,
                         CowRow(Str(BAD_TEXT), COW2, Str(MORNING), Str(<<"5">>))))
    ELSE MilkSheet(Append(StdMilkM.rows, MilkRow(Str(BAD_TEXT), Str(<<"5">>), Str(<<"3">>))))

\* seconds since the entry was stored
Age(entry) == (clock - entry.at) * TickSeconds
\* the entry is served: it exists and is younger than the TTL
Fresh(entry) == entry.has /\ Age(entry) < TTL

\* a variant of ReturnedObject that hands out the cached object itself
CachedObject(s, k) == 0

\* st.cache_data returns to the session an object of its own (the value
\* computed on a miss, an unpickled copy on a hit)
ReturnedObject(s, k) == s

\* the changes a page run makes in place to the table load_csv returned
InPlace(pg, k, d) ==
    IF pg = "Dashboard" THEN DateFilterLoop(d)
    ELSE IF k = "cow"
         THEN IF IsEmpty(d) THEN d
              ELSE IF HasCol(LowerCols(d), Lower(DATE))
                      /\ HasCol(LowerCols(d), Lower(MILKING_DOODH))
                   THEN MapCol(LowerCols(d), Lower(DATE), to_datetime)
                   ELSE LowerCols(d)
         ELSE IF IsEmpty(d) \/ ~HasCol(d, DATE) THEN d
              ELSE MapCol(d, DATE, to_datetime)

InitCache ==
    \E pg \in Pages :
        /\ InitSheets([k \in Sources |-> IF k \in WatchedSources THEN EditedSheet(k)
                                         ELSE StdSheets[k]],
                      "none", VALIDATION_START, 1, pg)
        /\ call = NoCall

\* a run of session s calls load_csv for the source k
CacheLoad ==
    \E s \in Sessions, k \in WatchedSources :
        /\ refs[s][k].stage # "loaded"
        /\ LET hit == Fresh(cache[k])
               value == IF hit THEN objs[0][k]
                        ELSE load_csv(sheets[k], down = k, {TIMESTAMP})
           IN /\ cache' = IF hit THEN cache
                          ELSE [cache EXCEPT ![k] = [has |-> TRUE, at |-> clock,
                                                     refreshed |-> FALSE,
                                                     fetched |-> value]]
              /\ objs' = [h \in Holders |->
                            IF h = 0 \/ h = ReturnedObject(s, k)
                            THEN [objs[h] EXCEPT ![k] = value] ELSE objs[h]]
              /\ refs' = [refs EXCEPT ![s][k] = [obj |-> ReturnedObject(s, k),
                                                 stage |-> "loaded"]]
              /\ served' = [src |-> k, had |-> cache[k].has, hit |-> hit,
                            age |-> IF cache[k].has THEN Age(cache[k]) ELSE 0,
                            refreshed |-> cache[k].refreshed, value |-> value]
    /\ UNCHANGED <<view, sheets, down, now, page, pc, df, milk_col, metrics, range_option,
                   missing_cards, error, call, clock>>

\* the run of session s changes in place the table it got for the source k
InPlaceChange ==
    \E s \in Sessions, k \in WatchedSources :
        /\ refs[s][k].stage = "loaded"
        /\ objs' = [objs EXCEPT ![refs[s][k].obj][k] = InPlace(page, k, @)]
        /\ refs' = [refs EXCEPT ![s][k].stage = "changed"]
    /\ UNCHANGED <<view, sheets, down, now, page, pc, df, milk_col, metrics, range_option,
                   missing_cards, error, call, clock, cache, served>>

\* the Refresh button of a session: st.rerun()
Refresh ==
    \E s \in Sessions :
        /\ refs' = [refs EXCEPT ![s] = [k \in WatchedSources |->
                                            [obj |-> 0, stage |-> "idle"]]]
        /\ objs' = [objs EXCEPT ![s] = [k \in WatchedSources |-> EmptyDF]]
        /\ cache' = [k \in WatchedSources |->
                        IF cache[k].has THEN [cache[k] EXCEPT !.refreshed = TRUE]
                        ELSE cache[k]]
    /\ UNCHANGED <<view, sheets, down, now, page, pc, df, milk_col, metrics, range_option,
                   missing_cards, error, call, clock, served>>

\* time passes
Tick ==
    /\ clock < MaxTicks
    /\ clock' = clock + 1
    /\ UNCHANGED <<view, sheets, down, now, page, pc, df, milk_col, metrics, range_option,
                   missing_cards, error, call, cache, objs, refs, served>>

\* somebody edits the sheet of a source
EditSheet ==
    \E k \in WatchedSources :
        /\ sheets' = [sheets EXCEPT ![k] = IF @ = EditedSheet(k) THEN StdSheets[k]
                                           ELSE EditedSheet(k)]
    /\ UNCHANGED <<view, down, now, page, pc, df, milk_col, metrics, range_option,
                   missing_cards, error, call, clock, cache, objs, refs, served>>

NextCache ==
    \/ CacheLoad
    \/ InPlaceChange
    \/ Refresh
    \/ Tick
    \/ EditSheet

SpecCache == InitCache /\ [][NextCache]_vars

\* ------------------------------------------------------------------------
\* Milking & Feeding page and Expense page: the key metrics and the
\* per-group totals
\* ------------------------------------------------------------------------
EXPENSE_TYPE == <<"E","x","p","e","n","s","e"," ","T","y","p","e">>
FEED == <<"F","e","e","d">>
VET == <<"V","e","t">>

\* the orderings of a finite set: the sequences that hold each member once
Orderings(S) ==
    {o \in [1..Cardinality(S) -> S] : \A x \in S : \E i \in 1..Cardinality(S) : o[i] = x}

\* df.groupby(by)[col].sum(): one total per value of by (rows whose by is
\* missing belong to no group); the sum skips what is not a number
GroupKeys(d, by) ==
    {d.rows[r][ColIdx(d, by)] : r \in 1..Len(d.rows)} \ {NaN}
GroupTotal(d, by, col, key) ==
    CoercedSum(FilterRows(d, {r \in 1..Len(d.rows) : d.rows[r][ColIdx(d, by)] = key}),
               col)
GroupBySum(d, by, col) ==
    {[key |-> k, total |-> GroupTotal(d, by, col, k)] : k \in GroupKeys(d, by)}

\* a variant of IsDescending: totals going up
IsAscending(listing) ==
    \A i, j \in 1..Len(listing) : i < j => listing[i].total <= listing[j].total

IsDescending(listing) ==
    \A i, j \in 1..Len(listing) : i < j => listing[i].total >= listing[j].total

\* .sort_values(ascending=False) with the default kind="quicksort", which is
\* not a stable sort: the totals come in descending order, equal totals in
\* an order the sort does not determine
sort_values_descending(groups) == {o \in Orderings(groups) : IsDescending(o)}

\* rows of df whose "%d-%m-%Y" Date falls in the month and year of today
ThisMonthDmy(d, today) ==
    FilterRows(d, {r \in 1..Len(d.rows) :
        LET c == to_datetime_dmy(d.rows[r][ColIdx(d, DATE)])
        IN c.t = "ts" /\ MonthOf(c.n) = MonthOf(today) /\ YearOf(c.n) = YearOf(today)})

\* Milking & Feeding: df[...] reads the Date column of a table with rows
MilkingPageRaises(d) == ~IsEmpty(d) /\ ~HasCol(d, DATE)

\* Milking & Feeding: the groups behind cow_wise (none: an empty DataFrame)
CowWiseGroups(d) ==
    IF ~IsEmpty(d) /\ HasCol(d, COWID) /\ milk_col_of(d) # None /\ HasCol(d, DATE)
    THEN GroupBySum(d, COWID, milk_col_of(d))
    ELSE {}

\* Expense: what ends the run before the per-group totals
ExpensePageError(d) ==
    IF IsEmpty(d) THEN ""
    ELSE IF ~HasCol(d, AMOUNT) THEN "KeyError"
    ELSE IF /\ \E r \in 1..Len(d.rows) : d.rows[r][ColIdx(d, AMOUNT)].t = "str"
            /\ \E r \in 1..Len(d.rows) : d.rows[r][ColIdx(d, AMOUNT)].t # "str"
         THEN "TypeError"
    ELSE IF ~HasCol(d, DATE) THEN "KeyError"
    ELSE IF \E r \in 1..Len(d.rows) : d.rows[r][ColIdx(d, AMOUNT)].t = "str"
         THEN "ValueError"
    ELSE ""

\* Expense: the groups behind expense_by_type and expense_by_person
ExpenseGroups(d, by) ==
    IF ~IsEmpty(d) /\ ExpensePageError(d) = "" /\ HasCol(d, by)
    THEN GroupBySum(d, by, AMOUNT)
    ELSE {}

\* rows of df whose Date (a Timestamp) falls in the month and year of today
ThisMonthTs(d, today) ==
    FilterRows(d, DateRows(d, LAMBDA x : MonthOf(x) = MonthOf(today)
                                           /\ YearOf(x) = YearOf(today)))

ListingPages == {"Milking & Feeding", "Expense"}
ExpenseCols == <<TIMESTAMP, DATE, AMOUNT, EXPENSE_TYPE, EXPENSE_BY>>
ExpenseRow(date, amount, type, who) == <<TS_TEXT, date, amount, type, who>>
ExpenseSheet(rows) == [cols |-> ExpenseCols, rows |-> rows]
GroupAmounts == {Str(<<"5">>), Str(<<"1","0">>)}
GroupCowRowChoices ==
    {CowRow(DTxt(VALIDATION_START), c, Str(MORNING), m) :
        c \in {COW1, COW2, COW1_UPPER}, m \in GroupAmounts}
    \cup {CowRow(DTxt(VALIDATION_START), COW2, Str(MORNING), Str(BAD_TEXT)),
          CowRow(DTxt(VALIDATION_START - 1), COW2, Str(MORNING), Str(<<"5">>)),
          <<TS_TEXT, DTxt(VALIDATION_START), NaN, Str(MORNING), Str(<<"5">>)>>}
GroupExpenseRowChoices ==
    {ExpenseRow(DTxt(VALIDATION_START), a, Str(t), Str(w)) :
        a \in GroupAmounts, t \in {FEED, VET}, w \in {BIPIN_KUMAR, OTHER_PARTY}}
    \cup {ExpenseRow(DTxt(VALIDATION_START), Str(BAD_TEXT), Str(FEED), Str(OTHER_PARTY)),
          ExpenseRow(DTxt(VALIDATION_START + 1), NaN, NaN, Str(OTHER_PARTY))}

InitListing ==
    \/ \E rows \in SeqsUpTo(GroupCowRowChoices, MaxGroupRows) :
          /\ InitSheets([StdSheets EXCEPT !.cow = CowSheet(rows)],
                        "none", VALIDATION_START, 1, "Milking & Feeding")
          /\ call = NoCall
    \/ \E rows \in SeqsUpTo(GroupExpenseRowChoices, MaxGroupRows) :
          /\ InitSheets([StdSheets EXCEPT !.expense = ExpenseSheet(rows)],
                        "none", VALIDATION_START, 1, "Expense")
          /\ call = NoCall

\* one run of the Milking & Feeding page
MilkingPage ==
    /\ pc = "start" /\ page = "Milking & Feeding"
    /\ LET d == clean_and_filter(load_csv(sheets.cow, down = "cow", {TIMESTAMP}))
           df_morning == clean_and_filter(load_csv(sheets.milk_m, down = "milk_m", {TIMESTAMP}))
           df_evening == clean_and_filter(load_csv(sheets.milk_e, down = "milk_e", {TIMESTAMP}))
           col == milk_col_of(d)
           counted == ~IsEmpty(d) /\ col # None /\ HasCol(d, DATE)
       IN /\ milk_col' = col
          /\ df' = [df EXCEPT !.cow = d, !.milk_m = df_morning, !.milk_e = df_evening]
          /\ \E listing \in sort_values_descending(CowWiseGroups(d)) :
                view' = [view EXCEPT
                    !.cow_wise = listing,
                    !.kpi = [@ EXCEPT
                        !["total_milk_produced"] =
                            IF counted THEN CoercedSum(d, col) ELSE 0,
                        !["total_milk_month"] =
                            IF counted THEN CoercedSum(ThisMonthDmy(d, now.day), col) ELSE 0,
                        !["total_distributed"] =
                            total_milk_distributed(df_morning)
                            + total_milk_distributed(df_evening)]]
          /\ IF MilkingPageRaises(d)
             THEN pc' = "crashed" /\ error' = "KeyError"
             ELSE pc' = "done" /\ UNCHANGED error
    /\ UNCHANGED <<clock, cache, objs, refs, served, sheets, down, now, page, metrics,
                   range_option, missing_cards, call>>

\* one run of the Expense page
ExpensePage ==
    /\ pc = "start" /\ page = "Expense"
    /\ LET loaded == load_csv(sheets.expense, down = "expense", {TIMESTAMP})
           d == IF ~IsEmpty(loaded) /\ HasCol(loaded, DATE)
                THEN MapCol(loaded, DATE, to_datetime) ELSE loaded
           shown == ~IsEmpty(d) /\ ExpensePageError(d) = ""
       IN /\ df' = [df EXCEPT !.expense = d]
          /\ \E by_type \in sort_values_descending(ExpenseGroups(d, EXPENSE_TYPE)),
                by_person \in sort_values_descending(ExpenseGroups(d, EXPENSE_BY)) :
                view' = [view EXCEPT
                    !.expense_by_type = by_type,
                    !.expense_by_person = by_person,
                    !.kpi = [@ EXCEPT
                        !["total_expense"] = IF shown THEN CoercedSum(d, AMOUNT) ELSE 0,
                        !["monthly_expense"] =
                            IF shown THEN CoercedSum(ThisMonthTs(d, now.day), AMOUNT)
                            ELSE 0]]
          /\ IF ExpensePageError(d) # ""
             THEN pc' = "crashed" /\ error' = ExpensePageError(d)
             ELSE pc' = "done" /\ UNCHANGED error
    /\ UNCHANGED <<clock, cache, objs, refs, served, sheets, down, now, page, milk_col,
                   metrics, range_option, missing_cards, call>>

NextListing ==
    \/ MilkingPage
    \/ ExpensePage

SpecListing == InitListing /\ [][NextListing]_vars

\* ------------------------------------------------------------------------
\* Manage Customers page: the customer worksheet, written by the runs of
\* several sessions. A worksheet is the sequence of its rows, the header
\* first; the cells are texts. Of the eight columns the model keeps
\* CustomerID, Name and Status; the calls to the worksheet succeed.
\* ------------------------------------------------------------------------
CUSTOMERID == <<"C","u","s","t","o","m","e","r","I","D">>
CUSTOMER_NAME == <<"N","a","m","e">>
STATUS == <<"S","t","a","t","u","s">>
ACTIVE == <<"A","c","t","i","v","e">>
INACTIVE == <<"I","n","a","c","t","i","v","e">>
CustomerHeader == <<CUSTOMERID, CUSTOMER_NAME, STATUS>>

\* f"CUST{ts}", ts = now().strftime("%Y%m%d%H%M%S"): the second of the clock
customer_id_of(second) == <<"C","U","S","T">> \o NumText(second)

\* ensure_header(ws): the worksheet after it, the header is its first row
ensure_header(ws) ==
    IF ws = <<>> \/ (\A k \in 1..Len(ws[1]) : ws[1][k] = <<>>)
    THEN <<CustomerHeader>> \o ws
    ELSE ws

\* row_dict.get(h, "")
RowDictGet(row_dict, h) ==
    CASE h = CUSTOMERID -> row_dict.CustomerID
      [] h = CUSTOMER_NAME -> row_dict.Name
      [] h = STATUS -> row_dict.Status
      [] OTHER -> <<>>

\* add_customer_row(row_dict): the worksheet after ws.append_row(row)
add_customer_row(ws, row_dict) ==
    LET with_header == ensure_header(ws)
        header == with_header[1]
    IN Append(with_header, [k \in 1..Len(header) |-> RowDictGet(row_dict, header[k])])

\* the first index of the header whose name, stripped and lowered, is `name`;
\* 0 if there is none
HeaderIndex(header, name) ==
    IF \E k \in 1..Len(header) : Lower(Strip(header[k])) = name
    THEN CHOOSE k \in 1..Len(header) :
            /\ Lower(Strip(header[k])) = name
            /\ \A j \in 1..(k - 1) : Lower(Strip(header[j])) # name
    ELSE 0

\* the rows of ws below the header whose CustomerID, stripped, is customer_id
RowsWithId(ws, customer_id) ==
    {r \in 2..Len(ws) :
        Strip(ws[r][HeaderIndex(ws[1], Lower(CUSTOMERID))]) = Strip(customer_id)}

\* a variant of find_row_number_by_customerid that returns the last such row
find_last_row_number_by_customerid(ws, customer_id) ==
    IF Len(ws) < 2 THEN [row_num |-> 0, header |-> None]
    ELSE IF HeaderIndex(ws[1], Lower(CUSTOMERID)) = 0
    THEN [row_num |-> 0, header |-> ws[1]]
    ELSE IF RowsWithId(ws, customer_id) = {} THEN [row_num |-> 0, header |-> ws[1]]
    ELSE [row_num |-> CHOOSE r \in RowsWithId(ws, customer_id) :
                        \A q \in RowsWithId(ws, customer_id) : q <= r,
          header |-> ws[1]]

\* find_row_number_by_customerid(ws, customer_id); row_num 0 stands for None
find_row_number_by_customerid(ws, customer_id) ==
    IF Len(ws) < 2 THEN [row_num |-> 0, header |-> None]
    ELSE IF HeaderIndex(ws[1], Lower(CUSTOMERID)) = 0
    THEN [row_num |-> 0, header |-> ws[1]]
    ELSE IF RowsWithId(ws, customer_id) = {} THEN [row_num |-> 0, header |-> ws[1]]
    ELSE [row_num |-> CHOOSE r \in RowsWithId(ws, customer_id) :
                        \A q \in RowsWithId(ws, customer_id) : r <= q,
          header |-> ws[1]]

\* delete_customer_by_id(customer_id): what it returns and the worksheet after
delete_customer_by_id(ws, customer_id) ==
    LET found == find_row_number_by_customerid(ws, customer_id)
        status_idx == HeaderIndex(found.header, Lower(STATUS))
    IN IF found.row_num = 0 THEN [ok |-> FALSE, ws |-> ws]
       ELSE IF status_idx = 0 THEN [ok |-> FALSE, ws |-> ws]
       ELSE [ok |-> TRUE,
             ws |-> [ws EXCEPT ![found.row_num][status_idx] = INACTIVE]]

\* the worksheets a run may find: empty, the header alone, one or two
\* customers, a header without Status or without CustomerID, a header and an
\* id typed with blanks around them
OLD_ID == <<"C","U","S","T","9">>
OLDER_ID == <<"C","U","S","T","8">>
CustomerSheets ==
    {<<>>,
     <<CustomerHeader>>,
     <<CustomerHeader, <<OLD_ID, <<"A">>, ACTIVE>>>>,
     <<CustomerHeader, <<OLD_ID, <<"A">>, ACTIVE>>, <<OLDER_ID, <<"B">>, ACTIVE>>>>,
     <<<<CUSTOMERID, CUSTOMER_NAME>>, <<OLD_ID, <<"A">>>>>>,
     <<<<CUSTOMER_NAME, STATUS>>, <<<<"A">>, ACTIVE>>>>,
     <<<<<<" ">> \o CUSTOMERID \o <<" ">>, CUSTOMER_NAME, Lower(STATUS) \o <<" ">>>>,
       <<<<" ">> \o OLD_ID, <<"A">>, ACTIVE>>, <<OLD_ID, <<"B">>, ACTIVE>>>>}

CustomerNames == {<<"A">>, <<" ">>}
NoRun == [pc |-> "idle", row |-> <<>>]
NoCustomerCall == [op |-> "none", id |-> <<>>, ok |-> FALSE, before |-> <<>>, after |-> <<>>]

\* call.runs: the position of each session's run; call.last: the last call
\* that wrote or read the worksheet, with the worksheet before and after it
InitCustomers ==
    /\ \E ws \in CustomerSheets :
        InitSheets([customers |-> ws], "none", VALIDATION_START, 1, "Manage Customers")
    /\ call = [runs |-> [s \in Sessions |-> NoRun], last |-> NoCustomerCall]

\* "Save" of the Create Customer form: the name is checked, the id is made
\* from the clock
CreateSubmit(s) ==
    /\ call.runs[s].pc = "idle"
    /\ \E name \in CustomerNames :
        call' = IF Strip(name) = <<>>
                THEN [call EXCEPT !.last = [NoCustomerCall EXCEPT !.op = "name required"]]
                ELSE [call EXCEPT !.runs[s] =
                        [pc |-> "adding",
                         row |-> [CustomerID |-> customer_id_of(clock),
                                  Name |-> Strip(name),
                                  Status |-> ACTIVE]]]
    /\ UNCHANGED <<view, clock, cache, objs, refs, served, sheets, down, now, page, pc, df, milk_col, metrics, range_option,
                   missing_cards, error>>

\* ok = add_customer_row(row), then the rerun
AddCustomerRow(s) ==
    /\ call.runs[s].pc = "adding"
    /\ Len(sheets.customers) <= MaxCustomers
    /\ sheets' = [sheets EXCEPT
            !.customers = add_customer_row(sheets.customers, call.runs[s].row)]
    /\ call' = [call EXCEPT
            !.runs[s] = NoRun,
            !.last = [op |-> "create", id |-> call.runs[s].row.CustomerID,
                      ok |-> TRUE, before |-> sheets.customers,
                      after |-> add_customer_row(sheets.customers, call.runs[s].row)]]
    /\ UNCHANGED <<view, clock, cache, objs, refs, served, down, now, page, pc, df, milk_col, metrics, range_option,
                   missing_cards, error>>

\* the ids the list of customers shows: str(row["CustomerID"]).strip(), ""
\* when the frame has no column of that name
ShownIds(ws) ==
    IF Len(ws) < 2 THEN {}
    ELSE {IF \E k \in 1..Len(ws[1]) : Strip(ws[1][k]) = CUSTOMERID
          THEN Strip(ws[r][CHOOSE k \in 1..Len(ws[1]) : Strip(ws[1][k]) = CUSTOMERID])
          ELSE <<>> : r \in 2..Len(ws)}

\* the delete button of a customer of the list, which may be out of date
DeleteCustomer(s) ==
    /\ call.runs[s].pc = "idle"
    /\ \E cid \in ShownIds(sheets.customers) \cup {OLDER_ID} :
        LET done == delete_customer_by_id(sheets.customers, cid)
        IN /\ sheets' = [sheets EXCEPT !.customers = done.ws]
           /\ call' = [call EXCEPT
                !.last = [op |-> "delete", id |-> cid, ok |-> done.ok,
                          before |-> sheets.customers, after |-> done.ws]]
    /\ UNCHANGED <<view, clock, cache, objs, refs, served, down, now, page, pc, df, milk_col, metrics, range_option,
                   missing_cards, error>>

NextCustomers ==
    \/ \E s \in Sessions : CreateSubmit(s)
    \/ \E s \in Sessions : AddCustomerRow(s)
    \/ \E s \in Sessions : DeleteCustomer(s)
    \/ Tick

SpecCustomers == InitCustomers /\ [][NextCustomers]_vars

\* ========================================================================
\* Properties
\* ========================================================================
\* C1: in every window (Dashboard lifetime, Dashboard current month, Milk
\* Distribution current month) the remaining milk shown equals the produced
\* milk shown minus the distributed milk shown, also when that is negative.
C1_RemainingIsSigned ==
    /\ metrics["remaining_milk"] =
          metrics["total_milk_produced"] - metrics["total_milk_distributed"]
    /\ metrics["remaining_milk_month"] =
          metrics["milk_month"] - metrics["milk_distributed_month"]
    /\ metrics["dist_remaining_milk"] =
          metrics["dist_total_milk_produced_month"] - metrics["dist_monthly_distributed"]

\* a Dashboard run that shows more distributed than produced in both windows
C1_Witness ==
    /\ page = "Dashboard" /\ pc = "done"
    /\ metrics["total_milk_distributed"] > metrics["total_milk_produced"]
    /\ metrics["remaining_milk"] < 0
    /\ metrics["milk_distributed_month"] > metrics["milk_month"]
    /\ metrics["remaining_milk_month"] < 0

\* the number a cell stands for, if it stands for one
IsNumberCell(c) == c.t = "num" \/ (c.t = "str" /\ IsNumText(c.s))
NumberOfCell(c) == IF c.t = "num" THEN c.n ELSE ParseNum(c.s)

\* the sum of the number cells of the columns of D that are not in X, row by row
RECURSIVE CellSum(_, _, _)
CellSum(D, X, cells) ==
    IF cells = {} THEN 0
    ELSE LET c == CHOOSE c \in cells : TRUE
         IN (IF D.cols[c[2]] \notin X /\ IsNumberCell(D.rows[c[1]][c[2]])
             THEN NumberOfCell(D.rows[c[1]][c[2]]) ELSE 0)
            + CellSum(D, X, cells \ {c})
AllCells(D) == (1..Len(D.rows)) \X (1..Len(D.cols))

ScenarioB ==
    [cols |-> <<DATE, CUSTOMER_A, CUSTOMER_B>>,
     rows |-> <<<<DTxt(VALIDATION_START), Num(5), Num(3)>>>>]

\* C2: sum_numeric_columns(D, X) is the sum of the cells that read as numbers
\* in the columns of D outside X; other cells add 0; an empty D gives 0
\* (scenario B: one row with 5 and 3, Date excluded, gives 8).
C2_SumAllNumeric ==
    call.returned =>
        /\ call.result = CellSum(call.df, call.excl, AllCells(call.df))
        /\ IsEmpty(call.df) => call.result = 0
        /\ (call.df = ScenarioB /\ call.excl = {DATE}) => call.result = 8

\* a call on a table with a number in an excluded column, a non-number text
\* and a number in a summed column
C2_Witness ==
    /\ call.returned
    /\ \E r \in 1..Len(call.df.rows), k \in 1..Len(call.df.cols) :
            call.df.cols[k] \in call.excl /\ IsNumberCell(call.df.rows[r][k])
    /\ \E r \in 1..Len(call.df.rows), k \in 1..Len(call.df.cols) :
            call.df.cols[k] \notin call.excl /\ call.df.rows[r][k] = Str(BAD_TEXT)
    /\ call.result > 0

\* ------------------------------------------------------------------------
\* The cow log as the sheet records it, for the statements about the scan
\* ------------------------------------------------------------------------
SheetCell(sheet, r, name) ==
    IF HasCol(sheet, name) THEN sheet.rows[r][ColIdx(sheet, name)] ELSE NaN

\* rows of the cow sheet with a date that reads as a date
LogRows == {r \in 1..Len(sheets.cow.rows) : SheetCell(sheets.cow, r, DATE).t = "dtxt"}
LogDay(r) == SheetCell(sheets.cow, r, DATE).n
LogEntity(r) == Strip(AsStr(SheetCell(sheets.cow, r, COWID)))
LogEntities == {LogEntity(r) : r \in LogRows}
EntityRows(e) == {r \in LogRows : LogEntity(r) = e}
FirstRecorded(e) ==
    CHOOSE d \in {LogDay(r) : r \in EntityRows(e)} : \A r \in EntityRows(e) : d <= LogDay(r)
EntityStart(e) == Max(VALIDATION_START, FirstRecorded(e))
Today == now.day

ShiftNames == {"Morning", "Evening"}
KeywordsOf(sh) == IF sh = "Morning" THEN MorningKeywords ELSE EveningKeywords
\* the row's shift value contains one of the keywords of the shift
RowHasShift(r, sh) ==
    /\ NotNull(SheetCell(sheets.cow, r, SHIFT_PAHAR))
    /\ \E k \in KeywordsOf(sh) :
          Contains(Lower(AsStr(SheetCell(sheets.cow, r, SHIFT_PAHAR))), k)
Recorded(e, d, sh) ==
    \E r \in EntityRows(e) : LogDay(r) = d /\ RowHasShift(r, sh)

MilkingGaps == {<<c.cowid, c.date, c.shift>> : c \in
                    {missing_cards[i] : i \in {j \in 1..Len(missing_cards) :
                                                missing_cards[j].kind = "milking"}}}
ExpectedMilkingGaps ==
    UNION {{<<e, d, sh>> : d \in {x \in EntityStart(e)..Today : ~Recorded(e, x, sh)}} :
            e \in LogEntities, sh \in ShiftNames}

ScanDone == page = "Dashboard" /\ pc = "done"
\* the chart's date range removed no row of the frame the scan reads
ChartKeptAllRows == Len(df.cow.rows) = Cardinality(LogRows)

\* C3: for every entity e of the cow log, every day d from
\* max(VALIDATION_START, first recorded date of e) to today and every shift s,
\* the scan emits the milking gap (e, d, s) exactly when the cow log has no row
\* of e on d whose shift value contains a keyword of s; it emits no other
\* milking gap.
C3_MilkingGapsExact == ScanDone => MilkingGaps = ExpectedMilkingGaps

\* the same, for the runs whose chart range kept every row of the cow log
C3_WhenChartKeptAllRows ==
    (ScanDone /\ ChartKeptAllRows) => MilkingGaps = ExpectedMilkingGaps

\* number of milking cards of the entity e, and of one shift of it
MilkingCardsOf(e) ==
    SelectSeq(missing_cards, LAMBDA c : c.kind = "milking" /\ c.cowid = e)
MilkingCardsOfShift(e, sh) ==
    SelectSeq(missing_cards, LAMBDA c : c.kind = "milking" /\ c.cowid = e /\ c.shift = sh)
DaysFrom(start) == IF Today >= start THEN Today - start + 1 ELSE 0
NoRowsInRange(e) ==
    \A r \in EntityRows(e) : ~(EntityStart(e) <= LogDay(r) /\ LogDay(r) <= Today)

C4_WhenChartKeptAllRows ==
    (ScanDone /\ ChartKeptAllRows) =>
        \A e \in LogEntities :
            NoRowsInRange(e) => Len(MilkingCardsOf(e)) = 2 * DaysFrom(EntityStart(e))

\* e has one row on every day from its start day to today, tagged Morning,
\* and no other row
MorningOnlyEveryDay(e) ==
    /\ EntityStart(e) <= Today
    /\ \A r \in EntityRows(e) :
          /\ EntityStart(e) <= LogDay(r) /\ LogDay(r) <= Today
          /\ RowHasShift(r, "Morning") /\ ~RowHasShift(r, "Evening")
    /\ \A d \in EntityStart(e)..Today :
          Cardinality({r \in EntityRows(e) : LogDay(r) = d}) = 1

C5_WhenChartKeptAllRows ==
    (ScanDone /\ ChartKeptAllRows) =>
        \A e \in LogEntities :
            MorningOnlyEveryDay(e) =>
                /\ Len(MilkingCardsOfShift(e, "Morning")) = 0
                /\ Len(MilkingCardsOfShift(e, "Evening")) = DaysFrom(EntityStart(e))
                /\ \A d \in EntityStart(e)..Today : <<e, d, "Evening">> \in MilkingGaps

\* ------------------------------------------------------------------------
\* The distribution tables as the run loads them
\* ------------------------------------------------------------------------
Channels == {"milk_m", "milk_e"}
ChannelShift(k) == IF k = "milk_m" THEN "Morning" ELSE "Evening"
\* rows of the channel's table, as loaded, whose date reads as day d
ChannelRowsOn(k, d) ==
    IF down = k THEN {}
    ELSE {r \in 1..Len(sheets[k].rows) : SheetCell(sheets[k], r, DATE) = DTxt(d)}
DistributionGaps == {<<c.shift, c.date>> : c \in
                        {missing_cards[i] : i \in {j \in 1..Len(missing_cards) :
                                missing_cards[j].kind = "distribution"}}}

\* C6: for each channel and each day d from VALIDATION_START to today, a
\* distribution gap of that channel and day is emitted exactly when the
\* channel's table has no row dated d.
C6_DistributionGapsExact ==
    ScanDone =>
        \A k \in Channels, d \in VALIDATION_START..Today :
            (<<ChannelShift(k), d>> \in DistributionGaps) <=> (ChannelRowsOn(k, d) = {})

\* a scan over two days or more in which a channel has a gap on one day and
\* a row, hence no gap, on another
C6_Witness ==
    /\ ScanDone
    /\ \E k \in Channels, d1, d2 \in VALIDATION_START..Today :
          /\ ChannelRowsOn(k, d1) # {} /\ <<ChannelShift(k), d1>> \notin DistributionGaps
          /\ ChannelRowsOn(k, d2) = {} /\ <<ChannelShift(k), d2>> \in DistributionGaps

\* ------------------------------------------------------------------------
\* The frame the scan reads (df_cow_log at the scan), for the statements
\* about the order of the cards and the identity of entities
\* ------------------------------------------------------------------------
FrameRows == 1..Len(df.cow.rows)
\* the cell of a row of the frame under a column (missing without the column)
FrameCell(r, name) ==
    IF HasCol(df.cow, name) THEN df.cow.rows[r][ColIdx(df.cow, name)] ELSE NaN
FrameEntity(r) == Strip(AsStr(FrameCell(r, COWID)))
FrameDay(r) == FrameCell(r, DATE).n
FrameEntities == {FrameEntity(r) : r \in FrameRows}
FrameHasShift(r, sh) ==
    /\ NotNull(FrameCell(r, SHIFT_PAHAR))
    /\ \E k \in KeywordsOf(sh) : Contains(Lower(AsStr(FrameCell(r, SHIFT_PAHAR))), k)
\* position of the first row of the entity (0 for the blank entity of the
\* scan without entities)
EntityRank(e) ==
    IF e \in FrameEntities
    THEN CHOOSE r \in FrameRows :
            FrameEntity(r) = e /\ \A q \in 1..(r - 1) : FrameEntity(q) # e
    ELSE 0
FrameStart(e) ==
    Max(VALIDATION_START,
        CHOOSE d \in {FrameDay(r) : r \in {q \in FrameRows : FrameEntity(q) = e}} :
            \A r \in {q \in FrameRows : FrameEntity(q) = e} : d <= FrameDay(r))

ShiftRank(sh) == IF sh = "Morning" THEN 0 ELSE 1
LexLE(a, b) ==
    \/ a = b
    \/ \E i \in 1..Len(a) : a[i] < b[i] /\ \A j \in 1..(i - 1) : a[j] = b[j]
SortedBy(Key(_)) ==
    \A i, j \in 1..Len(missing_cards) :
        i < j => LexLE(Key(missing_cards[i]), Key(missing_cards[j]))

\* milking cards by entity, date, shift; then distribution cards by channel,
\* date
KeyChannelFirst(c) ==
    IF c.kind = "milking" THEN <<0, EntityRank(c.cowid), c.date, ShiftRank(c.shift)>>
    ELSE <<1, ShiftRank(c.shift), c.date, 0>>
\* milking cards by entity, date, shift; then distribution cards by date,
\* channel
KeyDateFirst(c) ==
    IF c.kind = "milking" THEN <<0, EntityRank(c.cowid), c.date, ShiftRank(c.shift)>>
    ELSE <<1, c.date, ShiftRank(c.shift), 0>>

MilkingCowIds == {g[1] : g \in MilkingGaps}
\* the scan went by entity: the cow log has rows, a cow column and a shift
\* column
ScanHasEntities ==
    /\ df.cow.rows # <<>>
    /\ cowid_col_of(df.cow) # None
    /\ shift_col_of(df.cow) # None

\* C8 (as claimed): entity values that differ only in letter case or in
\* surrounding blanks are one entity of the scan, and a row under one
\* spelling satisfies the day/shift check of the other.
C8_CaseAndBlankInsensitive ==
    (ScanDone /\ ScanHasEntities) =>
        /\ \A e1, e2 \in MilkingCowIds :
              Lower(Strip(e1)) = Lower(Strip(e2)) => e1 = e2
        /\ \A g \in MilkingGaps :
              ~\E r \in FrameRows :
                  /\ Lower(FrameEntity(r)) = Lower(g[1])
                  /\ FrameDay(r) = g[2]
                  /\ FrameHasShift(r, g[3])

\* C8 (amended): entity values that differ only in surrounding blanks are one
\* entity of the scan, named by the stripped value, and a row under one
\* spelling satisfies the day/shift check of the other; values that differ in
\* letter case are different entities.
C8_BlankInsensitive ==
    (ScanDone /\ ScanHasEntities) =>
        LET gaps == MilkingGaps
            entities == FrameEntities
        IN /\ MilkingCowIds \subseteq entities
           /\ \A e \in entities, d \in VALIDATION_START..Today, sh \in ShiftNames :
                 (<<e, d, sh>> \in gaps) <=>
                     /\ FrameStart(e) <= d
                     /\ ~\E r \in FrameRows :
                           FrameEntity(r) = e /\ FrameDay(r) = d /\ FrameHasShift(r, sh)

\* a scan in which the only Morning row of a day is spelled with surrounding
\* blanks, the other rows of the cow are not, and the cow has no Morning gap
\* that day
C8_Witness ==
    /\ ScanDone
    /\ \E r \in FrameRows :
          /\ df.cow.rows[r][ColIdx(df.cow, COWID)] = Str(COW1_SPACED)
          /\ FrameHasShift(r, "Morning")
          /\ \E q \in FrameRows :
                df.cow.rows[q][ColIdx(df.cow, COWID)] = Str(COW1) /\ FrameDay(q) = FrameDay(r)
          /\ \A q \in FrameRows \ {r} :
                FrameDay(q) = FrameDay(r) => ~FrameHasShift(q, "Morning")
          /\ <<COW1, FrameDay(r), "Morning">> \notin MilkingGaps
          /\ <<COW1, FrameDay(r) + 1, "Morning">> \in MilkingGaps

\* ------------------------------------------------------------------------
\* Rows whose date cannot be read
\* ------------------------------------------------------------------------
DateReads(sheet, r) == SheetCell(sheet, r, DATE).t = "dtxt"
UnreadableRows(k) ==
    IF down = k \/ ~HasCol(sheets[k], DATE) THEN {}
    ELSE {r \in 1..Len(sheets[k].rows) : ~DateReads(sheets[k], r)}
\* the sheet without the rows whose date cannot be read
ReadableOnly(sheet) ==
    IF HasCol(sheet, DATE)
    THEN FilterRows(sheet, {r \in 1..Len(sheet.rows) : DateReads(sheet, r)})
    ELSE sheet
\* the frames of the run, had the sheets held only the rows with readable dates
ReadableFrames ==
    [k \in Sources |->
        DateFilterLoop(load_csv(ReadableOnly(sheets[k]), down = k, {TIMESTAMP}))]
LifetimeSums ==
    {"total_milk_produced", "total_milk_distributed", "remaining_milk",
     "total_expense", "total_payment_received", "total_investment"}
MonthSums ==
    {"milk_month", "milk_distributed_month", "remaining_milk_month",
     "expense_month", "payment_month"}

\* C9: a row whose date cannot be parsed satisfies no presence check and
\* enters no sum of the Dashboard: with such rows in the sheets, every
\* milking gap (e, d, s) of a scanned entity with no readable-date row of e
\* on d tagged s is emitted, every distribution gap of a channel and day with
\* no readable-date row on that day is emitted, and the lifetime and month
\* sums are those of the sheets without the unreadable rows.
C9_UnreadableDateIsAbsent ==
    ScanDone =>
        /\ ScanHasEntities =>
              LET gaps == MilkingGaps
              IN \A e \in FrameEntities :
                    LET start == FrameStart(e)
                        rows == EntityRows(e)
                    IN \A sh \in ShiftNames, d \in start..Today :
                          (~\E r \in rows : LogDay(r) = d /\ RowHasShift(r, sh))
                              => <<e, d, sh>> \in gaps
        /\ LET gaps == DistributionGaps
           IN \A k \in Channels, d \in VALIDATION_START..Today :
                 ChannelRowsOn(k, d) = {} => <<ChannelShift(k), d>> \in gaps
        /\ (\E k \in Sources : UnreadableRows(k) # {}) =>
              LET frames == ReadableFrames
                  lifetime == LifetimeMetrics(frames)
                  month == MonthMetrics(frames, now.day)
              IN /\ \A m \in LifetimeSums : metrics[m] = lifetime[m]
                 /\ \A m \in MonthSums : metrics[m] = month[m]

\* a scan of a cow log with a Morning row of cow c1 whose date cannot be
\* read and a milk value: the Morning gaps of c1 are all emitted and the
\* milk value is in no sum
C9_Witness ==
    /\ ScanDone
    /\ \E r \in UnreadableRows("cow") :
          /\ LogEntity(r) = COW1 /\ RowHasShift(r, "Morning")
          /\ IsNumberCell(SheetCell(sheets.cow, r, MILKING_DOODH))
    /\ COW1 \in FrameEntities
    /\ FrameStart(COW1) < Today
    /\ \A d \in FrameStart(COW1)..Today : <<COW1, d, "Morning">> \in MilkingGaps
    /\ metrics["total_milk_produced"] = 12
    /\ metrics["milk_month"] > 0

\* ------------------------------------------------------------------------
\* A source that cannot be fetched
\* ------------------------------------------------------------------------
\* C10: when one source cannot be fetched, load_csv gives an empty table for
\* it and the Dashboard run completes without raising, whichever source it
\* is, the cow log included.
C10_FetchFailureCompletes ==
    (page = "Dashboard" /\ down \in Sources) =>
        /\ pc # "start" => IsEmpty(df[down])
        /\ pc # "crashed" /\ error = ""

\* the first half alone: the table of the failed source is empty
C10_EmptyTable == (page = "Dashboard" /\ down \in Sources /\ pc # "start") => IsEmpty(df[down])

\* ------------------------------------------------------------------------
\* A sheet without one of its columns
\* ------------------------------------------------------------------------
SheetLacks(k, col) ==
    down # k /\ sheets[k].rows # <<>> /\ ~HasCol(sheets[k], col)
ShiftColumns == {SHIFT_PAHAR, SHIFT}
\* the metrics that read the column col of the source k
MetricsOn(k, col) ==
    CASE k = "cow" /\ col = MILKING_DOODH -> {"total_milk_produced", "milk_month"}
      [] k = "cow" /\ col = DATE -> {"milk_month"}
      [] k \in {"milk_m", "milk_e"} /\ col = DATE -> {}
      [] k = "expense" /\ col = AMOUNT -> {"total_expense", "expense_month"}
      [] k = "expense" /\ col = DATE -> {"expense_month"}
      [] k = "payment" /\ col = AMOUNT -> {"total_payment_received", "payment_month"}
      [] k = "payment" /\ col = DATE -> {"payment_month"}
      [] k = "investment" /\ col = AMOUNT -> {"total_investment"}
      [] OTHER -> {}

\* C11: when a non-empty source table lacks an expected column (Date, the
\* milk column, the shift column, the entity column, the ledger Amount
\* column), the Dashboard run raises no exception and, once it is through,
\* every metric that reads that column is 0.
C11_MissingColumnGivesZero ==
    page = "Dashboard" =>
        \A k \in Sources, col \in {DATE, MILKING_DOODH, SHIFT_PAHAR, COWID, AMOUNT} :
            (col \in ExpectedCols(k) /\ SheetLacks(k, col)) =>
                /\ pc # "crashed" /\ error = ""
                /\ pc = "done" => \A m \in MetricsOn(k, col) : metrics[m] = 0

\* the parts of it that the code does satisfy: without the milk column the
\* produced totals are 0 and the run is through
C11_MissingMilkColumn ==
    (page = "Dashboard" /\ SheetLacks("cow", MILKING_DOODH)) =>
        /\ pc # "crashed"
        /\ pc = "done" => metrics["total_milk_produced"] = 0 /\ metrics["milk_month"] = 0

\* ------------------------------------------------------------------------
\* The ledgers as the sheets record them
\* ------------------------------------------------------------------------
\* rows of the ledger k that the run keeps: all of them, less those whose
\* date cannot be read when the sheet has a Date column
LedgerRows(k) ==
    IF down = k THEN {}
    ELSE {r \in 1..Len(sheets[k].rows) :
            HasCol(sheets[k], DATE) => DateReads(sheets[k], r)}
\* the number in the Amount cell of row r, 0 when the cell is not a number
SheetAmount(k, r) ==
    IF IsNumberCell(SheetCell(sheets[k], r, AMOUNT))
    THEN NumberOfCell(SheetCell(sheets[k], r, AMOUNT)) ELSE 0
AmountOver(k, R) ==
    SumSeq([r \in 1..Len(sheets[k].rows) |-> IF r \in R THEN SheetAmount(k, r) ELSE 0])
\* rows whose party field is exactly the party name
ExactPartyRows(k) ==
    IF HasCol(sheets[k], PartyCol(k))
    THEN {r \in LedgerRows(k) : SheetCell(sheets[k], r, PartyCol(k)) = Str(BIPIN_KUMAR)}
    ELSE {}
TotalMetric(k) ==
    CASE k = "expense" -> "total_expense"
      [] k = "payment" -> "total_payment_received"
      [] k = "investment" -> "total_investment"
LifetimeShown == pc \in {"lifetime", "latest", "month", "chart", "done"}
HasNonNumberAmount(k) ==
    \E r \in LedgerRows(k) : ~IsNumberCell(SheetCell(sheets[k], r, AMOUNT))

\* C12: a cell that is not a number adds 0 to a sum, the other cells of its
\* column add their values, and the computation is not aborted: on the
\* Dashboard no TypeError is raised, each ledger total is the sum of the
\* number cells of Amount and the fund is made of the sums of the number
\* cells of the party's rows.
C12_NonNumberAddsZero ==
    page = "Dashboard" =>
        /\ error # "TypeError"
        /\ LifetimeShown =>
              /\ \A k \in Ledgers : metrics[TotalMetric(k)] = AmountOver(k, LedgerRows(k))
              /\ metrics["fund_bipin"] =
                    AmountOver("investment", ExactPartyRows("investment"))
                    + AmountOver("payment", ExactPartyRows("payment"))
                    - AmountOver("expense", ExactPartyRows("expense"))

\* the part of it that the code does satisfy: the ledger totals
C12_LedgerTotalsCoerced ==
    (page = "Dashboard" /\ LifetimeShown) =>
        \A k \in Ledgers : metrics[TotalMetric(k)] = AmountOver(k, LedgerRows(k))

\* ------------------------------------------------------------------------
\* Lifetime totals and the start date
\* ------------------------------------------------------------------------
\* rows of the sheet k with a readable date on or after VALIDATION_START
RowsFromStart(k) ==
    IF down = k \/ ~HasCol(sheets[k], DATE) THEN {}
    ELSE {r \in 1..Len(sheets[k].rows) :
            /\ DateReads(sheets[k], r)
            /\ SheetCell(sheets[k], r, DATE).n >= VALIDATION_START}
\* rows of the sheet k with a readable date before VALIDATION_START
RowsBeforeStart(k) ==
    IF down = k \/ ~HasCol(sheets[k], DATE) THEN {}
    ELSE {r \in 1..Len(sheets[k].rows) :
            /\ DateReads(sheets[k], r)
            /\ SheetCell(sheets[k], r, DATE).n < VALIDATION_START}
\* the sum of the number cells of the rows R of sheet k outside the columns X
NumbersOver(k, X, R) == CellSum(sheets[k], X, R \X (1..Len(sheets[k].cols)))
MilkOver(R) ==
    NumbersOver("cow", {c \in Range(sheets.cow.cols) : ~IsMilkName(c)}, R)
DistributedOver(Rm, Re) ==
    NumbersOver("milk_m", {TIMESTAMP, DATE}, Rm) + NumbersOver("milk_e", {TIMESTAMP, DATE}, Re)
AllHaveDate == \A k \in Sources : down = k \/ HasCol(sheets[k], DATE)

\* C13: the lifetime totals of the Dashboard (milk produced, milk distributed,
\* expense, payment, investment) are the sums over the rows dated on or after
\* VALIDATION_START; a row dated earlier adds nothing.
C13_LifetimeFromStart ==
    (page = "Dashboard" /\ LifetimeShown /\ AllHaveDate) =>
        /\ metrics["total_milk_produced"] = MilkOver(RowsFromStart("cow"))
        /\ metrics["total_milk_distributed"] =
              DistributedOver(RowsFromStart("milk_m"), RowsFromStart("milk_e"))
        /\ \A k \in Ledgers :
              HasCol(sheets[k], AMOUNT) =>
                  metrics[TotalMetric(k)] = AmountOver(k, RowsFromStart(k))

\* what the code computes: the rows dated earlier are summed as well
C13_LifetimeOverAllDates ==
    (page = "Dashboard" /\ LifetimeShown /\ AllHaveDate) =>
        /\ metrics["total_milk_produced"] =
              MilkOver(RowsFromStart("cow") \cup RowsBeforeStart("cow"))
        /\ metrics["total_milk_distributed"] =
              DistributedOver(RowsFromStart("milk_m") \cup RowsBeforeStart("milk_m"),
                              RowsFromStart("milk_e") \cup RowsBeforeStart("milk_e"))
        /\ \A k \in Ledgers :
              HasCol(sheets[k], AMOUNT) =>
                  metrics[TotalMetric(k)] =
                      AmountOver(k, RowsFromStart(k) \cup RowsBeforeStart(k))

\* ------------------------------------------------------------------------
\* Current-month totals
\* ------------------------------------------------------------------------
\* rows of the sheet k with a readable date in today's month of today's year
MonthYearRows(k) ==
    IF down = k \/ ~HasCol(sheets[k], DATE) THEN {}
    ELSE {r \in 1..Len(sheets[k].rows) :
            /\ DateReads(sheets[k], r)
            /\ MonthOf(SheetCell(sheets[k], r, DATE).n) = MonthOf(Today)
            /\ YearOf(SheetCell(sheets[k], r, DATE).n) = YearOf(Today)}
\* rows of the sheet k with a readable date in today's month of any year
MonthRows(k) ==
    IF down = k \/ ~HasCol(sheets[k], DATE) THEN {}
    ELSE {r \in 1..Len(sheets[k].rows) :
            /\ DateReads(sheets[k], r)
            /\ MonthOf(SheetCell(sheets[k], r, DATE).n) = MonthOf(Today)}
MonthShown == page = "Dashboard" /\ pc \in {"month", "chart", "done"} /\ AllHaveDate

\* C14: a current-month total (milk produced, milk distributed, expense,
\* payment) is the sum over the rows whose date has today's month and today's
\* year; a row of the same month of another year adds nothing.
C14_MonthAndYear ==
    MonthShown =>
        /\ metrics["milk_month"] = MilkOver(MonthYearRows("cow"))
        /\ metrics["milk_distributed_month"] =
              DistributedOver(MonthYearRows("milk_m"), MonthYearRows("milk_e"))
        /\ HasCol(sheets.expense, AMOUNT) =>
              metrics["expense_month"] = AmountOver("expense", MonthYearRows("expense"))
        /\ HasCol(sheets.payment, AMOUNT) =>
              metrics["payment_month"] = AmountOver("payment", MonthYearRows("payment"))

\* what the code computes: the rows of today's month of every year
C14_MonthOfAnyYear ==
    MonthShown =>
        /\ metrics["milk_month"] = MilkOver(MonthRows("cow"))
        /\ metrics["milk_distributed_month"] =
              DistributedOver(MonthRows("milk_m"), MonthRows("milk_e"))
        /\ HasCol(sheets.expense, AMOUNT) =>
              metrics["expense_month"] = AmountOver("expense", MonthRows("expense"))
        /\ HasCol(sheets.payment, AMOUNT) =>
              metrics["payment_month"] = AmountOver("payment", MonthRows("payment"))

\* the Milk Distribution page does compare month and year
C14_DistributionPageMonthAndYear ==
    (page = "Milk Distribution" /\ pc = "done") =>
        metrics["dist_monthly_distributed"] =
            DistributedOver(MonthYearRows("milk_m") \cap RowsFromStart("milk_m"),
                            MonthYearRows("milk_e") \cap RowsFromStart("milk_e"))

\* ------------------------------------------------------------------------
\* The fund of the party
\* ------------------------------------------------------------------------
TermMetric(k) ==
    CASE k = "expense" -> "expense_bipin"
      [] k = "payment" -> "received_bipin"
      [] k = "investment" -> "investment_bipin"
\* rows whose party field, stripped, contains the party name in any case
ContainingPartyRows(k) ==
    IF HasCol(sheets[k], PartyCol(k))
    THEN {r \in LedgerRows(k) :
            /\ SheetCell(sheets[k], r, PartyCol(k)).t = "str"
            /\ Contains(Lower(Strip(SheetCell(sheets[k], r, PartyCol(k)).s)),
                        Lower(BIPIN_KUMAR))}
    ELSE {}

C16_FundIsSigned ==
    (page = "Dashboard" /\ LifetimeShown) =>
        /\ metrics["fund_bipin"] =
              AmountOver("investment", ExactPartyRows("investment"))
              + AmountOver("payment", ExactPartyRows("payment"))
              - AmountOver("expense", ExactPartyRows("expense"))
        /\ \A k \in Ledgers :
              ~HasCol(sheets[k], PartyCol(k)) => metrics[TermMetric(k)] = 0
        /\ (sheets = StdSheets /\ down = "none") => metrics["fund_bipin"] = 600

\* the party's expenses exceed its investments and payments: the fund shown
\* is negative
C16_Witness ==
    /\ page = "Dashboard" /\ LifetimeShown
    /\ metrics["investment_bipin"] = 500
    /\ metrics["received_bipin"] = 200
    /\ metrics["expense_bipin"] = 900
    /\ metrics["fund_bipin"] = 0 - 200

\* ------------------------------------------------------------------------
\* The cache of load_csv
\* ------------------------------------------------------------------------
\* C17: load_csv serves a cached snapshot only while the snapshot is younger
\* than the TTL of 600 seconds and no Refresh was signalled since it was
\* stored; once the TTL has elapsed, or after a Refresh, the next load_csv
\* call for the source fetches it again.
C17_ServedOnlyWhileValid ==
    served.src # "none" =>
        (served.hit <=> (served.had /\ served.age < TTL /\ ~served.refreshed))

\* the part of it that holds: a snapshot is served exactly while it is
\* younger than the TTL
C17_ServedWithinTTL ==
    served.src # "none" => (served.hit <=> (served.had /\ served.age < TTL))

\* C18: whatever the interleaving of the runs, what a run changes in place
\* in a table it got from load_csv (dates converted, rows with unreadable
\* dates dropped, columns renamed) is seen by no other run and by no later
\* load_csv call: the cached table stays as it was fetched and every
\* load_csv call returns the snapshot as fetched.
C18_SnapshotAsFetched ==
    \A k \in WatchedSources :
        /\ cache[k].has => objs[0][k] = cache[k].fetched
        /\ served.src = k => served.value = cache[k].fetched
        /\ \A s \in Sessions :
              refs[s][k].stage = "loaded" => refs[s][k].obj = s

\* session 1 has changed its table in place, and a later call of session 2
\* was served the cached snapshot, unchanged
C18_Witness ==
    /\ refs[1]["cow"].stage = "changed"
    /\ objs[1]["cow"] # cache["cow"].fetched
    /\ refs[2]["cow"].stage = "loaded"
    /\ served.src = "cow" /\ served.hit
    /\ served.value = cache["cow"].fetched
    /\ objs[2]["cow"] = cache["cow"].fetched
    /\ ~IsEmpty(served.value)

\* ------------------------------------------------------------------------
\* The gap list and the chart range
\* ------------------------------------------------------------------------
\* the cow log as the run holds it before the chart section
CowLogBeforeChart == DateFilterLoop(load_csv(sheets.cow, down = "cow", {TIMESTAMP}))

\* the gap list the run emits when the chart range is option
GapsWithRange(option) ==
    missing_cards_of(
        AuditDates(ChartCowLog(CowLogBeforeChart, milk_col, date_limit_of(option, now))),
        AuditDates(df.milk_m), AuditDates(df.milk_e), now.day)

\* the run's gap list is the one of its own chart range
GapsOfChosenRange == ScanDone => missing_cards = GapsWithRange(range_option)

ListingDone == page \in ListingPages /\ pc = "done"
\* the listings of the page of the run
PageListings ==
    IF page = "Milking & Feeding" THEN {"cow_wise"}
    ELSE {"expense_by_type", "expense_by_person"}

\* the sheet, the group column and the summed column behind a listing
ListingSheet(n) == IF n = "cow_wise" THEN sheets.cow ELSE sheets.expense
ListingBy(n) ==
    CASE n = "cow_wise" -> COWID
      [] n = "expense_by_type" -> EXPENSE_TYPE
      [] n = "expense_by_person" -> EXPENSE_BY
ListingCol(n) == IF n = "cow_wise" THEN MILKING_DOODH ELSE AMOUNT

\* rows of the sheet that enter the listing: the group value is not missing
\* and, for cow_wise, the date is START_DATE or later
ListedRows(n) ==
    {r \in 1..Len(ListingSheet(n).rows) :
        /\ SheetCell(ListingSheet(n), r, ListingBy(n)) # NaN
        /\ n = "cow_wise" =>
              \E x \in START_DATE..MaxToday :
                  SheetCell(ListingSheet(n), r, DATE) = DTxt(x)}
RowGroup(n, r) == SheetCell(ListingSheet(n), r, ListingBy(n))
\* the groups in the order the rows first show them
FirstRowOf(n, g) ==
    CHOOSE r \in ListedRows(n) :
        RowGroup(n, r) = g /\ \A q \in ListedRows(n) : RowGroup(n, q) = g => r <= q
\* what the rows of group g add up to
RowsTotal(n, g) ==
    NumbersOver(IF n = "cow_wise" THEN "cow" ELSE "expense",
                Range(ListingSheet(n).cols) \ {ListingCol(n)},
                {r \in ListedRows(n) : RowGroup(n, r) = g})

ListingOf(n) == view[n]
\* the listing holds each group of the rows once, with its total
ListsGroupTotals(n) ==
    /\ {ListingOf(n)[i].key : i \in 1..Len(ListingOf(n))}
          = {RowGroup(n, r) : r \in ListedRows(n)}
    /\ Len(ListingOf(n)) = Cardinality({RowGroup(n, r) : r \in ListedRows(n)})
    /\ \A i \in 1..Len(ListingOf(n)) :
          ListingOf(n)[i].total = RowsTotal(n, ListingOf(n)[i].key)

\* no total of the listing is followed by a larger one
TotalsGoDown(n) ==
    \A i \in 1..(Len(ListingOf(n)) - 1) :
        ListingOf(n)[i].total >= ListingOf(n)[i + 1].total

\* equal totals stand in the order the rows first show their groups
TiesInFirstEncounterOrder(n) ==
    \A i, j \in 1..Len(ListingOf(n)) :
        (i < j /\ ListingOf(n)[i].total = ListingOf(n)[j].total) =>
            FirstRowOf(n, ListingOf(n)[i].key) < FirstRowOf(n, ListingOf(n)[j].key)

\* C20 as stated: the per-group totals are in descending order of total, and
\* groups with equal totals appear in the order in which the rows first show
\* them.
C20_DescendingStable ==
    ListingDone =>
        \A n \in PageListings :
            TotalsGoDown(n) /\ TiesInFirstEncounterOrder(n)

\* C20, amended: the per-group totals hold each group of the rows once with
\* the sum of its rows, in descending order of total; the order of groups
\* with equal totals is not determined.
C20_DescendingTotals ==
    ListingDone =>
        \A n \in PageListings : TotalsGoDown(n) /\ ListsGroupTotals(n)

\* a listing with two groups of equal total and a third group of another
\* total
C20_Witness ==
    /\ ListingDone
    /\ \E n \in PageListings :
          /\ Len(ListingOf(n)) = 3
          /\ ListingOf(n)[1].total > ListingOf(n)[2].total
          /\ ListingOf(n)[2].total = ListingOf(n)[3].total

\* ------------------------------------------------------------------------
\* The daily production-versus-delivery table of the Dashboard
\* ------------------------------------------------------------------------
ChartDone == page = "Dashboard" /\ pc \in {"chart", "done"}
\* the days the rows of a sheet are dated, as far as the run fetched it
SheetDays(k) ==
    IF down = k \/ ~HasCol(sheets[k], DATE) THEN {}
    ELSE {SheetCell(sheets[k], r, DATE).n :
            r \in {q \in 1..Len(sheets[k].rows) : SheetCell(sheets[k], q, DATE).t = "dtxt"}}
InRange(d) == Midnight(d) >= date_limit_of(range_option, now)
\* the days with produced totals and with distributed totals, in the range
ProducedSide ==
    IF milk_col # None THEN {d \in SheetDays("cow") : InRange(d)} ELSE {}
DistributedSide == {d \in SheetDays("milk_m") \cup SheetDays("milk_e") : InRange(d)}

\* one row for every day of either side, no other row
OneRowPerDay ==
    /\ {view.chart_df[i].Date : i \in 1..Len(view.chart_df)}
          = ProducedSide \cup DistributedSide
    /\ Len(view.chart_df) = Cardinality(ProducedSide \cup DistributedSide)
\* 0 for the side that has no data on the day
ZeroFilled ==
    \A i \in 1..Len(view.chart_df) :
        /\ view.chart_df[i].Date \notin ProducedSide => view.chart_df[i].Produced = Num(0)
        /\ view.chart_df[i].Date \notin DistributedSide => view.chart_df[i].Delivered = 0

\* C21 as stated: the daily table has exactly one row for every day of the
\* produced or the distributed totals in the range, with 0 for the side
\* without data, also when one of the two sides has no rows at all.
C21_OneRowPerDayAlways == ChartDone => (OneRowPerDay /\ ZeroFilled)

\* C21, amended: when both sides have a day in the range, the daily table
\* has exactly one row for every day of either side, with 0 for the side
\* without data that day; when one side has none, no table is shown.
C21_OneRowPerDayWhenBothSides ==
    ChartDone =>
        /\ view.chart_shown <=> (ProducedSide # {} /\ DistributedSide # {})
        /\ view.chart_shown => (OneRowPerDay /\ ZeroFilled)
        /\ ~view.chart_shown => view.chart_df = <<>>

\* a table with a day only the produced side has and a day only the
\* distributed side has
C21_Witness ==
    /\ ChartDone /\ view.chart_shown
    /\ \E i, j \in 1..Len(view.chart_df) :
          /\ view.chart_df[i].Date \in ProducedSide \ DistributedSide
          /\ view.chart_df[j].Date \in DistributedSide \ ProducedSide
          /\ view.chart_df[i].Delivered = 0
          /\ view.chart_df[j].Produced = Num(0)

\* ------------------------------------------------------------------------
\* The per-day distributed totals of the daily table
\* ------------------------------------------------------------------------
\* sum_numeric_columns over the day's rows of the morning and evening tables
DaySumNumeric(d) ==
    sum_numeric_columns(FilterRows(df.milk_m, RowsOfDay(df.milk_m, d)), {TIMESTAMP, DATE})
    + sum_numeric_columns(FilterRows(df.milk_e, RowsOfDay(df.milk_e, d)), {TIMESTAMP, DATE})
DeliveredMatches ==
    \A i \in 1..Len(view.chart_df) :
        view.chart_df[i].Date \in DistributedSide =>
            view.chart_df[i].Delivered = DaySumNumeric(view.chart_df[i].Date)

\* C22: for every day, the per-day distributed total of the daily table
\* equals sum_numeric_columns over that day's rows of the morning and evening
\* tables, the date column excluded.
C22_DayTotalIsSumNumeric == (ChartDone /\ view.chart_shown) => DeliveredMatches

\* every customer cell of both distribution sheets is a number or empty, and
\* both sheets have rows
AllDeliveriesNumbers ==
    \A k \in Channels :
        /\ down # k /\ Len(sheets[k].rows) > 0 /\ Len(df[k].rows) > 0
        /\ \A c \in Range(df[k].cols) \ {DATE} : NumberColumn(df[k], c)
\* the same, for the runs whose distribution tables hold numbers only
C22_WhenAllNumbers ==
    (ChartDone /\ view.chart_shown /\ AllDeliveriesNumbers) => DeliveredMatches


\* ------------------------------------------------------------------------
\* C23
\* ------------------------------------------------------------------------
SameResultTwice == call.again => call.second = call.first
OtherAsOnGivenTable ==
    call.step = 3 => call.last = HelperResult(call.other, call.given, now.day)

\* C23: a helper called a second time on the same table returns what it
\* returned the first time, and another helper called on that table afterwards
\* returns what it returns on the table as it was given.
C23_NoHiddenMutation == SameResultTwice /\ OtherAsOnGivenTable

\* the part of C23 about the second call alone
C23_SameResultTwice == SameResultTwice

\* ------------------------------------------------------------------------
\* C24, C25: the scan of a cow log that has no entity column
\* ------------------------------------------------------------------------
ScanDays == VALIDATION_START..Today
MilkingCardsOn(d, sh) ==
    {i \in 1..Len(missing_cards) :
        /\ missing_cards[i].kind = "milking"
        /\ missing_cards[i].date = d
        /\ missing_cards[i].shift = sh}
NoEntityColumn ==
    \A k \in 1..Len(df.cow.cols) :
        ~IsCowName(df.cow.cols[k]) /\ ~IsCowIdName(df.cow.cols[k])
NoShiftColumn == \A k \in 1..Len(df.cow.cols) : ~IsShiftName(df.cow.cols[k])
OnePairPerDay ==
    \A d \in ScanDays, sh \in ShiftNames : Cardinality(MilkingCardsOn(d, sh)) <= 1
NoEntityInCards ==
    \A i \in 1..Len(missing_cards) :
        missing_cards[i].kind = "milking" => missing_cards[i].cowid = <<>>

DaysWithRows ==
    {d \in ScanDays : \E r \in 1..Len(df.cow.rows) : FrameCell(r, DATE) = Ts(d)}

\* C25: in the scan without entities a day on which the cow log has a row
\* gets no milking gap.
C25_FallbackPresenceByDate ==
    (ScanDone /\ NoEntityColumn) =>
        \A d \in DaysWithRows, sh \in ShiftNames : MilkingCardsOn(d, sh) = {}

\* ------------------------------------------------------------------------
\* C26: which column a role is bound to
\* ------------------------------------------------------------------------
FirstCowCol ==
    IF FirstCol(df.cow, IsCowName) # None THEN FirstCol(df.cow, IsCowName)
    ELSE FirstCol(df.cow, IsCowIdName)

\* C26: the metric, entity and shift columns of the cow log are each the first
\* column, in column order, that matches the role.
C26_FirstMatchWins ==
    (ScanDone /\ df.cow.rows # <<>> /\ Today >= VALIDATION_START) =>
        /\ milk_col = FirstCol(df.cow, IsMilkName)
        /\ cowid_col_of(df.cow) = FirstCowCol
        /\ shift_col_of(df.cow) = FirstCol(df.cow, IsShiftName)

\* the metric column alone
C26_MetricFirstMatch ==
    (ScanDone /\ df.cow.rows # <<>> /\ Today >= VALIDATION_START) => milk_col = FirstCol(df.cow, IsMilkName)

\* ------------------------------------------------------------------------
\* C27: the window and the uniqueness of the gaps
\* ------------------------------------------------------------------------
\* C27: every gap is dated within [VALIDATION_START, today], no two gaps have
\* the same kind, entity, date and shift, and there is no gap when
\* VALIDATION_START is after today.
C27_GapsInWindowOnce ==
    /\ \A i \in 1..Len(missing_cards) :
        VALIDATION_START <= missing_cards[i].date /\ missing_cards[i].date <= Today
    /\ \A i, j \in 1..Len(missing_cards) :
        i # j => missing_cards[i] # missing_cards[j]
    /\ VALIDATION_START > Today => missing_cards = <<>>

C27_Witness ==
    /\ ScanDone /\ Today > VALIDATION_START
    /\ \E i, j \in 1..Len(missing_cards) :
        /\ missing_cards[i].kind = "milking" /\ missing_cards[i].cowid # <<>>
        /\ missing_cards[j].kind = "distribution"
    /\ \E r, q \in 1..Len(df.cow.rows) :
        r # q /\ CowKey(FrameCell(r, COWID)) = CowKey(FrameCell(q, COWID))

\* ------------------------------------------------------------------------
\* C28, C29: the customer worksheet
\* ------------------------------------------------------------------------
IsHeaderOf(h, name) == Lower(Strip(h)) = Lower(name)
\* the first column of the worksheet with that name, 0 if none
ColumnOf(ws, name) ==
    IF ws # <<>> /\ \E k \in 1..Len(ws[1]) : IsHeaderOf(ws[1][k], name)
    THEN CHOOSE k \in 1..Len(ws[1]) :
            IsHeaderOf(ws[1][k], name) /\ \A j \in 1..(k - 1) : ~IsHeaderOf(ws[1][j], name)
    ELSE 0

\* C28: no two rows of the customer worksheet have the same CustomerID.
C28_UniqueCustomerIds ==
    LET ws == sheets.customers
        c == ColumnOf(ws, CUSTOMERID)
    IN c # 0 =>
        \A r, q \in 2..Len(ws) : r # q => ws[r][c] # ws[q][c]

\* the rows of ws that the page shows under the id `id`
ShownAs(ws, id) ==
    IF ColumnOf(ws, CUSTOMERID) = 0 THEN {}
    ELSE {r \in 2..Len(ws) : Strip(ws[r][ColumnOf(ws, CUSTOMERID)]) = Strip(id)}
FirstOf(S) == CHOOSE r \in S : \A q \in S : r <= q

\* C29: delete_customer_by_id removes no row; when the id and the Status
\* column are found it sets the Status cell of the first row with that id to
\* "Inactive", returns True and changes no other cell; otherwise it returns
\* False and changes nothing.
C29_DeleteMarksInactive ==
    call.last.op = "delete" =>
        LET b == call.last.before
            a == call.last.after
            rows == ShownAs(b, call.last.id)
            st == ColumnOf(b, STATUS)
        IN /\ Len(a) = Len(b)
           /\ IF rows # {} /\ st # 0
              THEN /\ call.last.ok
                   /\ \A r \in 1..Len(b) :
                        /\ Len(a[r]) = Len(b[r])
                        /\ \A k \in 1..Len(b[r]) :
                            a[r][k] = IF r = FirstOf(rows) /\ k = st
                                      THEN INACTIVE ELSE b[r][k]
              ELSE ~call.last.ok /\ a = b

C29_Witness ==
    /\ call.last.op = "delete" /\ call.last.ok
    /\ Cardinality(ShownAs(call.last.before, call.last.id)) >= 2
    /\ call.last.after # call.last.before

====
